---- MODULE Spec2Model ----
(***************************************************************************)
(* Accounts-receivable (CxC) pipeline of prac_data_pipelines.              *)
(*                                                                         *)
(* The raw table of the master query is the sequence `df`; run_pipeline    *)
(* hands it to generar_reporte_cxc, Auditor.run_audit,                     *)
(* Analytics.run_analytics and generar_kpis, one after the other.          *)
(*                                                                         *)
(* Units: money is an integer number of thousandths of the currency unit,  *)
(* so that DataFrame.round(2) is a real rounding (to a multiple of 10);    *)
(* dates are integer day numbers; a missing value (NaN / NaT / None) is    *)
(* NULL.                                                                   *)
(***************************************************************************)
EXTENDS Integers, Sequences, FiniteSets, TLC

VARIABLES
    escenario,      \* which family of raw tables the connector supplies
    rangos,         \* settings.RANGOS_ANTIGUEDAD handed to Analytics
    anomalias,      \* settings.ANOMALIAS handed to Auditor
    df,             \* raw table returned by execute_sql_file
    pc,             \* position of run_pipeline
    df_filtrado,    \* generar_reporte_cxc: df_filtrado after the three calculations
    reporte,        \* dict returned by generar_reporte_cxc
    cxc,            \* run_pipeline: the dict of views cxc
    auditoria,      \* AuditResult tables
    analisis,       \* dict returned by run_analytics
    kpis,           \* aggregates of generar_kpis
    archivos,       \* files written to OUTPUT_DIR by this run
    skip_audit,     \* run_pipeline: step 3 is left out
    skip_analytics, \* run_pipeline: steps 4 and 4b are left out
    skip_kpis,      \* run_pipeline: step 5 is left out
    codigo_salida   \* value run_pipeline has returned, NULL while it has not

vars == <<escenario, rangos, anomalias, df, pc, df_filtrado,
          reporte, cxc, auditoria, analisis, kpis, archivos,
          skip_audit, skip_analytics, skip_kpis, codigo_salida>>

(***************************************************************************)
(* Bounds and constants                                                    *)
(***************************************************************************)
MaxBloques == 3             \* documents (blocks of rows) in the raw table

NULL == -999999             \* NaN / NaT / None
Hoy == 200                  \* pd.Timestamp.now().normalize(), as a day number
DiasPeriodo == 90           \* dias_periodo of generar_kpis

\* _CANCELADO_VALUES; the CANCELADO column is text here, so the entries 1 and
\* True of the list are represented by "1"
CanceladoValues == {"S", "SI", "s", "si", "1"}

Max2(a, b) == IF a >= b THEN a ELSE b
Abs(x) == IF x < 0 THEN -x ELSE x

RECURSIVE SeqSum(_)
SeqSum(s) == IF s = <<>> THEN 0 ELSE Head(s) + SeqSum(Tail(s))

\* sum of val[x] over the elements x of a set
RECURSIVE SumaConj(_, _)
SumaConj(S, val) ==
    IF S = {} THEN 0
    ELSE LET x == CHOOSE y \in S : TRUE IN val[x] + SumaConj(S \ {x}, val)

\* DataFrame.round(2): nearest multiple of 10 thousandths, ties to even
Round2(x) ==
    LET a == Abs(x)
        q == a \div 10
        r == a % 10
        m == IF r > 5 \/ (r = 5 /\ q % 2 = 1) THEN q + 1 ELSE q
    IN  IF x < 0 THEN -(m * 10) ELSE m * 10

Range(s) == {s[i] : i \in 1..Len(s)}

\* the rows of a table that satisfy a mask, in the table's order
RECURSIVE Filtrar(_, _)
Filtrar(s, mask) ==
    IF s = <<>> THEN <<>>
    ELSE LET resto == Filtrar(Tail(s), [i \in 1..(Len(s) - 1) |-> mask[i + 1]])
         IN  IF mask[1] THEN <<Head(s)>> \o resto ELSE resto

\* sum of a column expression over the rows of a table
RECURSIVE Suma(_, _)
Suma(s, val) ==
    IF s = <<>> THEN 0
    ELSE val[1] + Suma(Tail(s), [i \in 1..(Len(s) - 1) |-> val[i + 1]])

\* tuple comparison, first differing key decides
LexLt(a, b) ==
    \E k \in 1..Len(a) : a[k] < b[k] /\ \A j \in 1..(k - 1) : a[j] = b[j]

\* DataFrame.sort_values on several keys (stable); key[i] is the key tuple of
\* row i, NULL is the smallest value so that na_position = "first"
SortValues(s, key) ==
    LET n == Len(s)
        pos(i) == Cardinality({j \in 1..n :
                      LexLt(key[j], key[i])
                      \/ (~LexLt(key[i], key[j]) /\ j < i)}) + 1
    IN  [k \in 1..n |-> s[CHOOSE i \in 1..n : pos(i) = k]]

\* row r with column c set to v
Con(r, c, v) == [k \in (DOMAIN r) \cup {c} |-> IF k = c THEN v ELSE r[k]]

\* whether table s has column c (an empty table has every column of the query)
TieneColumna(s, c) == \A i \in 1..Len(s) : c \in DOMAIN s[i]

\* alphabetical rank of the text values that are used as sort keys
Orden(t) ==
    CASE t = "A" -> 1
      [] t = "ALPHA" -> 2
      [] t = "BETA" -> 3
      [] t = "C" -> 4
      [] t = "GAMMA" -> 5
      [] t = "R" -> 6
      [] OTHER -> 0

(***************************************************************************)
(* Raw table: the rows the master query can return.                        *)
(***************************************************************************)
\* str.strip().str.upper() on TIPO_IMPTE
NormTipo(t) ==
    CASE t \in {"C", "c", " C", "c "} -> "C"
      [] t \in {"R", "r", " r", "R "} -> "R"
      [] t \in {"A", "a", " a", "A "} -> "A"
      [] OTHER -> t

\* acr of a payment that pays the charge just before it in its block
PREVIO == -1

Fila(tipo, cliente, acr, emision, venc, importe, impuesto, cancelado) ==
    [TIPO_IMPTE |-> tipo, NOMBRE_CLIENTE |-> cliente, DOCTO_CC_ACR_ID |-> acr,
     FECHA_EMISION |-> emision, FECHA_VENCIMIENTO |-> venc,
     IMPORTE |-> importe, IMPUESTO |-> impuesto, CANCELADO |-> cancelado,
     MONEDA |-> "MXN"]

Cargo(cliente, venc, importe, impuesto, cancelado) ==
    Fila("C", cliente, NULL, IF venc = NULL THEN Hoy - 60 ELSE venc - 30, venc,
         importe, impuesto, cancelado)

Abono(cliente, acr, emision, importe, impuesto, cancelado) ==
    Fila("R", cliente, acr, emision, NULL, importe, impuesto, cancelado)

(***************************************************************************)
(* Families of raw tables.  A block is one document or a charge followed   *)
(* by the payment that settles it; the table is a concatenation of blocks. *)
(* Amounts: 1000000 is 1,000.00 and 4 is 0.004.                            *)
(***************************************************************************)
Escenarios ==
    {"saldos", "mora", "recaudo", "atipicos", "importes", "kpis", "clientes",
     "salida", "vistas", "monedas"}

\* balances: linked, unlinked, cancelled, cross-client and excess payments,
\* a payment 0.004 short, and unapplied advances
BloquesSaldos ==
    {<<Cargo(c, Hoy - 10, 1000000, 160000, "N")>> : c \in {"ALPHA", "BETA"}}
    \cup {<<Cargo("ALPHA", Hoy - 10, 1000000, 160000, "S")>>}
    \cup {<<Abono("ALPHA", a, Hoy - 5, m[1], m[2], "N")>> :
             a \in {NULL, 1, 2}, m \in {<<1000000, 160000>>, <<500000, 80000>>}}
    \cup {<<Abono("ALPHA", 1, Hoy - 5, 1159996, 0, "N")>>,
          <<Abono("ALPHA", 1, Hoy - 5, 1200000, 0, "N")>>,
          <<Abono("BETA", 1, Hoy - 5, 500000, 80000, "N")>>,
          <<Abono("ALPHA", 1, Hoy - 5, 1000000, 160000, "S")>>}
    \cup {<<Fila(" a", "ALPHA", NULL, Hoy - 5, NULL, 300000, 0, "N")>>,
          <<Fila("A ", "ALPHA", 1, Hoy - 5, NULL, 300000, 0, "N")>>,
          <<Fila("A", "ALPHA", NULL, Hoy - 5, NULL, 300000, 0, "si")>>}

\* aging: one open charge per block, due today - d for the d at and around
\* every boundary of the ranges, or with no due date; partial payments
DiasMora == {-5, 0, 1, 30, 31, 60, 61, 90, 91, 100, 120, 121}

BloquesMora ==
    {<<Cargo("ALPHA", Hoy - d, 500000, 0, "N")>> : d \in DiasMora}
    \cup {<<Cargo("ALPHA", NULL, 500000, 0, "N")>>,
          <<Cargo("BETA", Hoy - 100, 500000, 0, "N")>>,
          <<Abono("ALPHA", 1, Hoy - 1, 100000, 0, "N")>>,
          <<Abono("ALPHA", 1, Hoy - 1, 500000, 0, "N")>>}

\* collection cycle: a charge due on day Vence and payments issued around it
Vence == 100
DiasRecaudo == {-1, 0, 1, 15, 16, 30, 31, 60, 61}

BloquesRecaudo ==
    {<<Cargo("ALPHA", Vence, 1000000, 160000, "N")>>,
     <<Cargo("ALPHA", NULL, 1000000, 160000, "N")>>,
     <<Cargo("ALPHA", Vence, 0, 0, "N")>>}
    \cup {<<Abono("ALPHA", 1, Vence + d, 1000000, 160000, "N")>> : d \in DiasRecaudo}
    \cup {<<Abono("ALPHA", 1, NULL, 1000000, 160000, "N")>>,
          <<Abono("ALPHA", 1, Vence, 500000, 80000, "N")>>,
          <<Abono("ALPHA", 1, Vence + 20, 500000, 80000, "N")>>,
          <<Abono("ALPHA", 1, Vence + 20, 1159996, 0, "N")>>,
          <<Abono("ALPHA", 2, Vence + 61, 1000000, 160000, "N")>>}

\* outliers: settled charges (a charge and its payment) and open charges
\* with equal and different amounts and dates, cancelled or without amount
BloquesAtipicos ==
    {<<Cargo("ALPHA", Vence, 1000000, 0, "N"),
       Abono("ALPHA", PREVIO, Vence + d, 1000000, 0, "N")>> : d \in {0, 10, 60}}
    \cup {<<Cargo("ALPHA", Hoy - d, m, 0, "N")>> :
             d \in {10, 40}, m \in {1000000, 500000}}
    \cup {<<Cargo("ALPHA", Hoy - 10, 500000, 0, "S")>>,
          <<Cargo("ALPHA", Hoy - 10, NULL, 0, "N")>>,
          <<Cargo("ALPHA", NULL, 1000000, 0, "N")>>,
          <<Cargo("ALPHA", Hoy - 10, 1000000, 160000, "N")>>}

\* charge amounts: charges of 100.00 (one, or five in a row), a charge of
\* 100,000.00 and a payment of 100,000.00
CargoDe100 == Cargo("ALPHA", Hoy - 10, 100000, 0, "N")

BloquesImportes ==
    {<<CargoDe100>>,
     <<CargoDe100, CargoDe100, CargoDe100, CargoDe100, CargoDe100>>,
     <<Cargo("ALPHA", Hoy - 10, 100000000, 0, "N")>>,
     <<Cargo("BETA", Hoy - 10, 100000000, 0, "N")>>,
     <<Abono("ALPHA", NULL, Hoy - 5, 100000000, 0, "N")>>}

\* KPI window: charges issued inside, on the edges of and before the
\* trailing window, due before, on and after today, and payments
BloquesKpis ==
    {<<Fila("C", "ALPHA", NULL, Hoy - 10, Hoy + 20, 90000000, 0, "N")>>,
     <<Fila("C", "ALPHA", NULL, Hoy - DiasPeriodo - 1, Hoy - 61, 3000000, 0, "N")>>,
     <<Fila("C", "ALPHA", NULL, Hoy - DiasPeriodo, Hoy, 7000000, 0, "N")>>,
     <<Fila("C", "BETA", NULL, Hoy - 30, Hoy - 1, 1000000, 160000, "N")>>,
     <<Fila("C", "BETA", NULL, NULL, NULL, 1000000, 160000, "N")>>,
     <<Fila("R", "ALPHA", 1, Hoy - 5, NULL, 1000000, 0, "N")>>,
     <<Fila("R", "ALPHA", 1, Hoy, NULL, 90000000, 0, "N")>>,
     <<Fila("R", "ALPHA", NULL, Hoy - 100, NULL, 3000000, 0, "N")>>}

\* clients: the credit limit of the client is on each of its rows (ALPHA
\* 10,000.00, BETA 0, GAMMA none); balances at and around 70, 90 and 100
\* percent of the limit, equal balances, and a charge paid in excess
LimiteDeCliente(cliente) ==
    CASE cliente = "ALPHA" -> 10000000
      [] cliente = "BETA" -> 0
      [] OTHER -> NULL

ConLimite(fila) ==
    Con(fila, "LIMITE_CREDITO", LimiteDeCliente(fila.NOMBRE_CLIENTE))

BloquesClientes ==
    {<<ConLimite(Cargo("ALPHA", Hoy - 10, m, 0, "N"))>> :
        m \in {1000000, 5000000, 6996000, 7000000, 8996000, 9000000,
               10000000, 10004000, 10010000}}
    \cup {<<ConLimite(Cargo(c, Hoy - 10, 1000000, 0, "N"))>> :
              c \in {"BETA", "GAMMA"}}
    \cup {<<ConLimite(Cargo("BETA", Hoy - 10, 1000000, 160000, "N")),
            ConLimite(Abono("BETA", PREVIO, Hoy - 5, 1200000, 0, "N"))>>}

\* output files: a few documents, enough for every stage to have rows
BloquesSalida ==
    {<<Cargo(c, Hoy - 10, 1000000, 160000, "N")>> : c \in {"ALPHA", "BETA"}}
    \cup {<<Abono("ALPHA", 1, Hoy - 5, 1000000, 160000, "N")>>,
          <<Cargo("ALPHA", Hoy - 10, 1000000, 160000, "S")>>}

\* a row with the salesperson and the client type of the master query
ConVendedor(fila, vendedor, tipo_cliente) ==
    Con(Con(fila, "VENDEDOR", vendedor), "TIPO_CLIENTE", tipo_cliente)

\* views and missing fields: charges, payments and advances, cancelled or
\* not, with or without salesperson and client type
BloquesVistas ==
    {<<ConVendedor(Cargo("ALPHA", Hoy - 10, 1000000, 160000, "N"), v, "T1")>> :
        v \in {"V1", "NaN"}}
    \cup {<<ConVendedor(Abono("ALPHA", 1, Hoy - 5, 500000, 80000, "N"), v, "T1")>> :
        v \in {"V1", "NaN"}}
    \cup {<<ConVendedor(Fila("A", "ALPHA", NULL, Hoy - 5, NULL, 300000, 0, c),
                        "NaN", "T1")>> : c \in {"N", "S"}}
    \cup {<<ConVendedor(Cargo("ALPHA", Hoy - 10, 1000000, 160000, "S"),
                        "V1", "T1")>>,
          <<ConVendedor(Cargo("BETA", Hoy - 10, 1000000, 160000, "N"),
                        "V1", "NaN")>>}

\* a row in another currency
EnMoneda(fila, moneda) == Con(fila, "MONEDA", moneda)

\* currencies: open charges in MXN and USD, not yet due and overdue by 10,
\* 40 and 130 days, and a partial payment
BloquesMonedas ==
    {<<Cargo("ALPHA", Hoy - d, 1000000, 0, "N")>> : d \in {-5, 10, 130}}
    \cup {<<Cargo("BETA", Hoy - 40, 2000000, 0, "N")>>,
          <<EnMoneda(Cargo("ALPHA", Hoy - 10, 500000, 0, "N"), "USD")>>,
          <<EnMoneda(Cargo("ALPHA", Hoy - 130, 250000, 0, "N"), "USD")>>,
          <<Abono("ALPHA", 1, Hoy - 1, 400000, 0, "N")>>}

Bloques(esc) ==
    CASE esc = "saldos" -> BloquesSaldos
      [] esc = "mora" -> BloquesMora
      [] esc = "recaudo" -> BloquesRecaudo
      [] esc = "atipicos" -> BloquesAtipicos
      [] esc = "importes" -> BloquesImportes
      [] esc = "kpis" -> BloquesKpis
      [] esc = "clientes" -> BloquesClientes
      [] esc = "salida" -> BloquesSalida
      [] esc = "vistas" -> BloquesVistas
      [] esc = "monedas" -> BloquesMonedas

RECURSIVE Aplanar(_)
Aplanar(bs) == IF bs = <<>> THEN <<>> ELSE Head(bs) \o Aplanar(Tail(bs))

\* DOCTO_CC_ID and FOLIO number the documents in the order of the table
Numerar(filas) ==
    [i \in 1..Len(filas) |->
        LET f == filas[i]
            g == IF f.DOCTO_CC_ACR_ID = PREVIO
                 THEN Con(f, "DOCTO_CC_ACR_ID", i - 1) ELSE f
        IN  Con(Con(g, "DOCTO_CC_ID", i), "FOLIO", i)]

\* the table without one of its columns
SinColumna(s, c) ==
    [i \in 1..Len(s) |-> [k \in (DOMAIN s[i]) \ {c} |-> s[i][k]]]

\* the column names of the master query as a driver may return them in
\* lower case
Minuscula ==
    [TIPO_IMPTE |-> "tipo_impte", NOMBRE_CLIENTE |-> "nombre_cliente",
     DOCTO_CC_ACR_ID |-> "docto_cc_acr_id", DOCTO_CC_ID |-> "docto_cc_id",
     FECHA_EMISION |-> "fecha_emision",
     FECHA_VENCIMIENTO |-> "fecha_vencimiento", IMPORTE |-> "importe",
     IMPUESTO |-> "impuesto", CANCELADO |-> "cancelado", MONEDA |-> "moneda",
     FOLIO |-> "folio", VENDEDOR |-> "vendedor",
     TIPO_CLIENTE |-> "tipo_cliente", LIMITE_CREDITO |-> "limite_credito"]

\* c.upper().strip() on a column name
Upper(c) ==
    IF \E k \in DOMAIN Minuscula : Minuscula[k] = c
    THEN CHOOSE k \in DOMAIN Minuscula : Minuscula[k] = c
    ELSE c

\* the table with the columns of `cols` named in lower case
EnMinusculas(s, cols) ==
    [i \in 1..Len(s) |->
        [k \in {IF c \in cols THEN Minuscula[c] ELSE c : c \in DOMAIN s[i]} |->
            s[i][Upper(k)]]]

\* df.columns = [c.upper().strip() for c in df.columns]
ColumnasEnMayusculas(s) ==
    IF \A i \in 1..Len(s) : \A k \in DOMAIN s[i] : Upper(k) = k THEN s
    ELSE [i \in 1..Len(s) |->
            [c \in {Upper(k) : k \in DOMAIN s[i]} |->
                s[i][CHOOSE k \in DOMAIN s[i] : Upper(k) = c]]]

\* the tables of a family: up to MaxBloques blocks, with or without the
\* reference column DOCTO_CC_ACR_ID
Tablas(esc, conAcr) ==
    {IF conAcr THEN Numerar(Aplanar(bs))
     ELSE SinColumna(Numerar(Aplanar(bs)), "DOCTO_CC_ACR_ID") :
        bs \in UNION {[1..n -> Bloques(esc)] : n \in 0..MaxBloques}}

(***************************************************************************)
(* Series statistics (pandas mean / std with ddof = 1) in exact            *)
(* arithmetic.  A z-score does not change when every value is shifted by   *)
(* the same amount and divided by the same factor, so the sums are taken   *)
(* over (v - min) / gcd to stay inside the integers of the checker.        *)
(***************************************************************************)
RECURSIVE Mcd(_, _)
Mcd(a, b) == IF b = 0 THEN a ELSE Mcd(b, a % b)

RECURSIVE McdSeq(_)
McdSeq(s) == IF s = <<>> THEN 0 ELSE Mcd(Head(s), McdSeq(Tail(s)))

\* Series.dropna()
DropNa(s) == Filtrar(s, [i \in 1..Len(s) |-> s[i] # NULL])

Minimo(s) == CHOOSE m \in Range(s) : \A v \in Range(s) : m <= v

\* the k-th value shifted and divided
Escala(valores) ==
    Max2(McdSeq([i \in 1..Len(valores) |-> valores[i] - Minimo(valores)]), 1)
Reducir(x, valores) == (x - Minimo(valores)) \div Escala(valores)

\* n * (n - 1) * variance of the reduced series
Dispersion(valores) ==
    LET n == Len(valores)
        S == SeqSum([i \in 1..n |-> Reducir(valores[i], valores)])
        Q == SeqSum([i \in 1..n |-> Reducir(valores[i], valores)
                                    * Reducir(valores[i], valores)])
    IN  n * Q - S * S

\* std() > 0; std() is NaN for fewer than two values
StdPositiva(valores) == Len(valores) >= 2 /\ Dispersion(valores) > 0
\* std() == 0
StdCero(valores) == Len(valores) >= 2 /\ Dispersion(valores) = 0

\* abs((x - mean) / std) >= umbral for a value x of the series; NaN (x missing,
\* 0 / 0, or std NaN) compares False
ZscoreAlcanza(x, valores, umbral) ==
    LET n == Len(valores)
        S == SeqSum([i \in 1..n |-> Reducir(valores[i], valores)])
        d == n * Reducir(x, valores) - S
    IN  /\ x # NULL
        /\ n >= 2
        /\ Dispersion(valores) > 0
        /\ d * d * (n - 1) >= umbral * umbral * n * Dispersion(valores)

(***************************************************************************)
(* reporte_cxc.py                                                          *)
(***************************************************************************)
COLUMNAS_REPORTE ==
    {"NOMBRE_CLIENTE", "MONEDA", "FOLIO", "FECHA_EMISION", "FECHA_VENCIMIENTO",
     "TIPO_IMPTE", "IMPORTE", "IMPUESTO", "SALDO_FACTURA", "SALDO_CLIENTE",
     "DELTA_RECAUDO", "CATEGORIA_RECAUDO", "DELTA_MORA", "CATEGORIA_MORA"}

COLUMNAS_POR_ACREDITAR ==
    COLUMNAS_REPORTE \ {"FECHA_VENCIMIENTO", "IMPUESTO", "SALDO_FACTURA",
                        "SALDO_CLIENTE", "DELTA_RECAUDO", "CATEGORIA_RECAUDO",
                        "DELTA_MORA", "CATEGORIA_MORA"}

COLUMNAS_FACTURAS_ABIERTAS ==
    {"NOMBRE_CLIENTE", "MONEDA", "FOLIO", "FECHA_EMISION", "FECHA_VENCIMIENTO",
     "IMPORTE", "IMPUESTO", "SALDO_FACTURA", "DELTA_MORA", "CATEGORIA_MORA"}

COLUMNAS_FACTURAS_CERRADAS ==
    {"NOMBRE_CLIENTE", "MONEDA", "FOLIO", "FECHA_EMISION", "FECHA_VENCIMIENTO",
     "IMPORTE", "IMPUESTO", "SALDO_FACTURA", "DELTA_RECAUDO",
     "CATEGORIA_RECAUDO"}

\* reporte_cxc._preparar: numeric NaN to 0, TIPO_IMPTE stripped and upper-cased
Preparar(df_crudo) ==
    LET d == ColumnasEnMayusculas(df_crudo)
    IN  [i \in 1..Len(d) |->
            [c \in DOMAIN d[i] |->
                CASE c \in {"IMPORTE", "IMPUESTO"} ->
                        IF d[i][c] = NULL THEN 0 ELSE d[i][c]
                  [] c = "TIPO_IMPTE" -> NormTipo(d[i][c])
                  [] OTHER -> d[i][c]]]

SeleccionarColumnas(d, cols) ==
    [i \in 1..Len(d) |-> [c \in (DOMAIN d[i]) \cap cols |-> d[i][c]]]

\* CANCELADO.isin(_CANCELADO_VALUES)
EsCancelado(r) == "CANCELADO" \in DOMAIN r /\ r.CANCELADO \in CanceladoValues

ObtenerPorAcreditar(d) ==
    Filtrar(d, [i \in 1..Len(d) |->
                   d[i].TIPO_IMPTE = "A" /\ ~EsCancelado(d[i])])

\* the filter that keeps the unapplied advances
FiltrarMovimientosConAnticipos(d) ==
    Filtrar(d, [i \in 1..Len(d) |-> ~EsCancelado(d[i])])

FiltrarMovimientos(d) ==
    Filtrar(d, [i \in 1..Len(d) |->
                   ~EsCancelado(d[i]) /\ d[i].TIPO_IMPTE # "A"])

\* _MONTO
Monto(r) == r.IMPORTE + r.IMPUESTO

\* abonos_por_cargo looked up for one charge id, NaN filled with 0
AbonosPorCargo(d, id) ==
    Suma(d, [i \in 1..Len(d) |->
                IF /\ d[i].TIPO_IMPTE = "R"
                   /\ d[i].DOCTO_CC_ACR_ID # NULL
                   /\ d[i].DOCTO_CC_ACR_ID = id
                THEN Monto(d[i]) ELSE 0])

\* the balance of a charge floored at zero
SaldoCargoAcotado(d, r) ==
    IF TieneColumna(d, "DOCTO_CC_ACR_ID") /\ TieneColumna(d, "DOCTO_CC_ID")
    THEN Max2(0, Monto(r) - AbonosPorCargo(d, r.DOCTO_CC_ID))
    ELSE Monto(r)

SaldoCargo(d, r) ==
    IF TieneColumna(d, "DOCTO_CC_ACR_ID") /\ TieneColumna(d, "DOCTO_CC_ID")
    THEN Monto(r) - AbonosPorCargo(d, r.DOCTO_CC_ID)
    ELSE Monto(r)

CalcularSaldoFactura(d) ==
    [i \in 1..Len(d) |->
        Con(d[i], "SALDO_FACTURA",
            IF d[i].TIPO_IMPTE = "C" THEN Round2(SaldoCargo(d, d[i])) ELSE NULL)]

\* np.select: the choice of the first condition that holds, else the default
NpSelect(condiciones, opciones, default) ==
    IF \E k \in 1..Len(condiciones) : condiciones[k]
    THEN opciones[CHOOSE k \in 1..Len(condiciones) :
                     condiciones[k] /\ \A j \in 1..(k - 1) : ~condiciones[j]]
    ELSE default

\* the earliest instead of the latest payment date
PrimerAbono(d, id) ==
    LET fechas == {d[i].FECHA_EMISION : i \in {j \in 1..Len(d) :
                        /\ d[j].TIPO_IMPTE = "R"
                        /\ d[j].DOCTO_CC_ACR_ID # NULL
                        /\ d[j].DOCTO_CC_ACR_ID = id
                        /\ d[j].FECHA_EMISION # NULL}}
    IN  IF fechas = {} THEN NULL
        ELSE CHOOSE f \in fechas : \A g \in fechas : f <= g

\* ultimo_abono looked up for one charge id: latest FECHA_EMISION of the
\* payments that reference it, NaT when there is none with a date
UltimoAbono(d, id) ==
    LET fechas == {d[i].FECHA_EMISION : i \in {j \in 1..Len(d) :
                        /\ d[j].TIPO_IMPTE = "R"
                        /\ d[j].DOCTO_CC_ACR_ID # NULL
                        /\ d[j].DOCTO_CC_ACR_ID = id
                        /\ d[j].FECHA_EMISION # NULL}}
    IN  IF fechas = {} THEN NULL
        ELSE CHOOSE f \in fechas : \A g \in fechas : g <= f

\* a comparison with NaN is False: every condition tests x # NULL first
CategoriaRecaudo(x) ==
    NpSelect(<<x # NULL /\ x < 0,
               x # NULL /\ x = 0,
               x # NULL /\ x >= 1 /\ x <= 15,
               x # NULL /\ x >= 16 /\ x <= 30,
               x # NULL /\ x >= 31 /\ x <= 60,
               x # NULL /\ x > 60>>,
             <<"Pago anticipado", "Pago puntual", "Retraso leve (1-15)",
               "Retraso moderado (16-30)", "Retraso alto (31-60)",
               "Retraso critico (>60)">>,
             "")

\* the aging categories with "not yet due" only for negative days
CategoriaMoraEstricta(x) ==
    NpSelect(<<x # NULL /\ x < 0,
               x # NULL /\ x >= 1 /\ x <= 30,
               x # NULL /\ x >= 31 /\ x <= 60,
               x # NULL /\ x >= 61 /\ x <= 90,
               x # NULL /\ x > 90>>,
             <<"Por vencer", "Mora temprana (1-30)", "Mora media (31-60)",
               "Mora alta (61-90)", "Mora critica (>90)">>,
             "")

CategoriaMora(x) ==
    NpSelect(<<x # NULL /\ x <= 0,
               x # NULL /\ x >= 1 /\ x <= 30,
               x # NULL /\ x >= 31 /\ x <= 60,
               x # NULL /\ x >= 61 /\ x <= 90,
               x # NULL /\ x > 90>>,
             <<"Por vencer", "Mora temprana (1-30)", "Mora media (31-60)",
               "Mora alta (61-90)", "Mora critica (>90)">>,
             "")

\* datetime difference in days, NaN when either date is NaT
DiasEntre(hasta, desde) ==
    IF hasta = NULL \/ desde = NULL THEN NULL ELSE hasta - desde

CalcularMetricasCiclo(d) ==
    LET pagada(r) == r.TIPO_IMPTE = "C" /\ r.SALDO_FACTURA = 0
        abierta(r) == r.TIPO_IMPTE = "C" /\ r.SALDO_FACTURA > 0
        conRecaudo == /\ \E i \in 1..Len(d) : pagada(d[i])
                      /\ TieneColumna(d, "DOCTO_CC_ACR_ID")
                      /\ TieneColumna(d, "DOCTO_CC_ID")
                      /\ TieneColumna(d, "FECHA_EMISION")
        conMora == /\ \E i \in 1..Len(d) : abierta(d[i])
                   /\ TieneColumna(d, "FECHA_VENCIMIENTO")
        recaudo(r) == IF conRecaudo /\ pagada(r)
                      THEN DiasEntre(UltimoAbono(d, r.DOCTO_CC_ID),
                                     r.FECHA_VENCIMIENTO)
                      ELSE NULL
        mora(r) == IF conMora /\ abierta(r)
                   THEN DiasEntre(Hoy, r.FECHA_VENCIMIENTO)
                   ELSE NULL
    IN  [i \in 1..Len(d) |->
            [c \in (DOMAIN d[i]) \cup {"DELTA_RECAUDO", "CATEGORIA_RECAUDO",
                                       "DELTA_MORA", "CATEGORIA_MORA"} |->
                CASE c = "DELTA_RECAUDO" -> recaudo(d[i])
                  [] c = "CATEGORIA_RECAUDO" ->
                        IF conRecaudo /\ pagada(d[i])
                        THEN CategoriaRecaudo(recaudo(d[i])) ELSE ""
                  [] c = "DELTA_MORA" -> mora(d[i])
                  [] c = "CATEGORIA_MORA" ->
                        IF conMora /\ abierta(d[i])
                        THEN CategoriaMora(mora(d[i])) ELSE ""
                  [] OTHER -> d[i][c]]]

\* the value of a sort column, NULL when the table lacks the column
Clave(r, c) == IF c \in DOMAIN r THEN r[c] ELSE NULL

\* a charge adds its amount to the running balance without any sign
MovimientoSinSigno(r) ==
    IF r.TIPO_IMPTE = "C" THEN Monto(r)
    ELSE IF r.TIPO_IMPTE = "R" THEN Monto(r) ELSE 0

\* movimiento: + amount of a charge, - amount of a payment
Movimiento(r) ==
    IF r.TIPO_IMPTE = "C" THEN Monto(r)
    ELSE IF r.TIPO_IMPTE = "R" THEN -Monto(r) ELSE 0

CalcularSaldoCliente(d) ==
    LET o == SortValues(d, [i \in 1..Len(d) |->
                 <<Orden(d[i].NOMBRE_CLIENTE), Clave(d[i], "DOCTO_CC_ACR_ID"),
                   Clave(d[i], "DOCTO_CC_ID"), Clave(d[i], "FECHA_EMISION")>>])
        cumsum(i) == Suma(SubSeq(o, 1, i), [j \in 1..i |->
                         IF o[j].NOMBRE_CLIENTE = o[i].NOMBRE_CLIENTE
                         THEN Movimiento(o[j]) ELSE 0])
    IN  [i \in 1..Len(o) |-> Con(o[i], "SALDO_CLIENTE", Round2(cumsum(i)))]

AgregarBandasGrupo(d) ==
    IF ~TieneColumna(d, "DOCTO_CC_ID") \/ ~TieneColumna(d, "TIPO_IMPTE")
    THEN [i \in 1..Len(d) |-> Con(d[i], "_BAND_GROUP", 0)] ELSE
    LET grupo(r) == IF r.TIPO_IMPTE = "C" THEN r.DOCTO_CC_ID
                    ELSE IF Clave(r, "DOCTO_CC_ACR_ID") = NULL
                         THEN r.DOCTO_CC_ID ELSE r.DOCTO_CC_ACR_ID
        o == SortValues(d, [i \in 1..Len(d) |->
                 <<Orden(d[i].NOMBRE_CLIENTE), grupo(d[i]),
                   Orden(d[i].TIPO_IMPTE), Clave(d[i], "FECHA_EMISION")>>])
        cambio(i) == i = 1 \/ grupo(o[i]) # grupo(o[i - 1])
    IN  [i \in 1..Len(o) |->
            Con(o[i], "_BAND_GROUP",
                Cardinality({j \in 1..i : cambio(j)}) % 2)]

\* the charges whose balance satisfies the mask `estado` and the payments
\* that reference them
ExtraerFacturas(d, estado) ==
    LET cargos == Filtrar(d, [i \in 1..Len(d) |->
                      d[i].TIPO_IMPTE = "C" /\ estado[i]])
        ids == {cargos[i].DOCTO_CC_ID : i \in 1..Len(cargos)}
        abonos == IF TieneColumna(d, "DOCTO_CC_ACR_ID")
                  THEN Filtrar(d, [i \in 1..Len(d) |->
                           /\ d[i].TIPO_IMPTE = "R"
                           /\ d[i].DOCTO_CC_ACR_ID \in ids])
                  ELSE <<>>
    IN  IF cargos = <<>> THEN <<>> ELSE AgregarBandasGrupo(cargos \o abonos)

SaldoPositivo(x) == x # NULL /\ x > 0

\* a closed charge taken to be any charge that is not open
SaldoNoPositivo(x) == x # NULL /\ x <= 0

SaldoCero(x) == x # NULL /\ x = 0

ExtraerFacturasAbiertas(d) ==
    ExtraerFacturas(d, [i \in 1..Len(d) |-> SaldoPositivo(d[i].SALDO_FACTURA)])
ExtraerFacturasCerradas(d) ==
    ExtraerFacturas(d, [i \in 1..Len(d) |-> SaldoCero(d[i].SALDO_FACTURA)])

\* the non-missing values of a column over the rows selected by a mask
Serie(d, c, mask) ==
    DropNa([i \in 1..Len(Filtrar(d, mask)) |-> Filtrar(d, mask)[i][c]])

\* ATIPICO_* of one row: None outside the computation, else z >= umbral
Atipico(aplica, x, valores, umbral) ==
    IF aplica /\ Len(valores) >= 3 /\ StdPositiva(valores)
    THEN IF ZscoreAlcanza(x, valores, umbral) THEN "True" ELSE "False"
    ELSE "None"

AgregarZscores(d, umbral) ==
    LET importes == Serie(d, "IMPORTE",
                          [i \in 1..Len(d) |-> d[i].TIPO_IMPTE = "C"])
        vals_recaudo == Serie(d, "DELTA_RECAUDO", [i \in 1..Len(d) |-> TRUE])
        vals_mora == Serie(d, "DELTA_MORA", [i \in 1..Len(d) |-> TRUE])
    IN  [i \in 1..Len(d) |->
            [c \in (DOMAIN d[i]) \cup {"ATIPICO_IMPORTE", "ATIPICO_DELTA_RECAUDO",
                                       "ATIPICO_DELTA_MORA"} |->
                CASE c = "ATIPICO_IMPORTE" ->
                        Atipico(d[i].TIPO_IMPTE = "C", d[i].IMPORTE,
                                importes, umbral)
                  [] c = "ATIPICO_DELTA_RECAUDO" ->
                        Atipico(d[i].DELTA_RECAUDO # NULL, d[i].DELTA_RECAUDO,
                                vals_recaudo, umbral)
                  [] c = "ATIPICO_DELTA_MORA" ->
                        Atipico(d[i].DELTA_MORA # NULL, d[i].DELTA_MORA,
                                vals_mora, umbral)
                  [] OTHER -> d[i][c]]]

\* umbral of _agregar_zscores when the caller passes none
UmbralPorDefecto == 3

\* a view restricted to its columns, keeping the bands of the source
Vista(cruda, cols) == SeleccionarColumnas(cruda, cols \cup {"_BAND_GROUP"})

\* df_filtrado of generar_reporte_cxc once the three calculations are done
DfFiltrado(df_crudo) ==
    CalcularSaldoCliente(CalcularMetricasCiclo(CalcularSaldoFactura(
        FiltrarMovimientos(Preparar(df_crudo)))))

GenerarReporteCxc(df_crudo) ==
    LET filtrado == DfFiltrado(df_crudo)
        bandas == AgregarBandasGrupo(filtrado)
    IN  [reporte_cxc |-> Vista(bandas, COLUMNAS_REPORTE),
         por_acreditar |->
             SeleccionarColumnas(ObtenerPorAcreditar(Preparar(df_crudo)),
                                 COLUMNAS_POR_ACREDITAR),
         movimientos_abiertos_cxc |->
             Vista(ExtraerFacturasAbiertas(filtrado), COLUMNAS_FACTURAS_ABIERTAS),
         movimientos_cerrados_cxc |->
             Vista(ExtraerFacturasCerradas(filtrado), COLUMNAS_FACTURAS_CERRADAS),
         movimientos_totales_cxc |-> AgregarZscores(bandas, UmbralPorDefecto)]

(***************************************************************************)
(* auditor.py                                                              *)
(***************************************************************************)
\* Auditor._preparar_datos: TIPO_IMPTE normalised; numeric NaN is kept
PrepararDatos(df_crudo) ==
    LET d == ColumnasEnMayusculas(df_crudo)
    IN  [i \in 1..Len(d) |->
            [c \in DOMAIN d[i] |->
                IF c = "TIPO_IMPTE" THEN NormTipo(d[i][c]) ELSE d[i][c]]]

\* the outlier rows without the minimum of three values
FilasAtipicasSinMinimo(cargos, columna, umbral) ==
    LET valores == Serie(cargos, columna, [i \in 1..Len(cargos) |-> TRUE])
    IN  IF StdCero(valores) THEN <<>>
        ELSE Filtrar(cargos, [i \in 1..Len(cargos) |->
                 ZscoreAlcanza(cargos[i][columna], valores, umbral)])

\* the rows of `cargos` whose value in `columna` has z >= umbral, unless the
\* series has fewer than three values or no spread
FilasAtipicas(cargos, columna, umbral) ==
    LET valores == Serie(cargos, columna, [i \in 1..Len(cargos) |-> TRUE])
    IN  IF Len(valores) < 3 \/ StdCero(valores) THEN <<>>
        ELSE Filtrar(cargos, [i \in 1..Len(cargos) |->
                 ZscoreAlcanza(cargos[i][columna], valores, umbral)])

\* the charge-amount rule taken over every row, payments included
DetectarImportesAtipicosTodos(d, config) ==
    Filtrar(FilasAtipicas(d, "IMPORTE", config.importe_zscore_umbral),
            [i \in 1..Len(FilasAtipicas(d, "IMPORTE",
                                        config.importe_zscore_umbral)) |->
                FilasAtipicas(d, "IMPORTE", config.importe_zscore_umbral)[i]
                    .TIPO_IMPTE = "C"])

DetectarImportesAtipicos(d, config) ==
    FilasAtipicas(Filtrar(d, [i \in 1..Len(d) |-> d[i].TIPO_IMPTE = "C"]),
                  "IMPORTE", config.importe_zscore_umbral)

DetectarAtipicosDelta(df_reporte, columna, umbral) ==
    SinColumna(
        FilasAtipicas(Filtrar(df_reporte, [i \in 1..Len(df_reporte) |->
                                  df_reporte[i].TIPO_IMPTE = "C"]),
                      columna, umbral),
        "_BAND_GROUP")

AnalizarCancelados(d) ==
    Filtrar(d, [i \in 1..Len(d) |-> EsCancelado(d[i])])

\* the columns of the master query that hold text, and the text that is NaN
ColumnasDeTexto ==
    {"TIPO_IMPTE", "NOMBRE_CLIENTE", "CANCELADO", "MONEDA", "VENDEDOR",
     "TIPO_CLIENTE"}
NA == "NaN"

\* Series.isna() on one cell
IsNa(r, c) == IF c \in ColumnasDeTexto THEN r[c] = NA ELSE r[c] = NULL

\* rows whose TIPO_CLIENTE is NaN, with the reason; empty without the column
DetectarSinTipoCliente(d) ==
    IF ~TieneColumna(d, "TIPO_CLIENTE") THEN <<>>
    ELSE LET sin_tipo == Filtrar(d, [i \in 1..Len(d) |->
                                        IsNa(d[i], "TIPO_CLIENTE")])
         IN  [i \in 1..Len(sin_tipo) |->
                Con(sin_tipo[i], "MOTIVO",
                    "Cliente sin tipo asignado en el sistema")]

\* rows whose VENDEDOR is NaN, with the reason; empty without the column
DetectarSinVendedor(d) ==
    IF ~TieneColumna(d, "VENDEDOR") THEN <<>>
    ELSE LET sin_vendedor == Filtrar(d, [i \in 1..Len(d) |->
                                            IsNa(d[i], "VENDEDOR")])
         IN  [i \in 1..Len(sin_vendedor) |->
                Con(sin_vendedor[i], "MOTIVO", "Venta sin vendedor asignado")]

\* the columns of a table (those of its rows; none are known when empty)
Columnas(d) == IF d = <<>> THEN {} ELSE DOMAIN d[1]

\* one entry per column of the table: rows in total and rows with NaN
EvaluarCalidadDatos(d) ==
    [c \in Columnas(d) |->
        [TOTAL_REGISTROS |-> Len(d),
         NULOS |-> Cardinality({i \in 1..Len(d) : IsNa(d[i], c)})]]

\* counts of each kind of finding and their total
GenerarResumen(d, result) ==
    [total_registros |-> Len(d),
     importes_atipicos |-> Len(result.importes_atipicos),
     recaudos_atipicos |-> Len(result.recaudos_atipicos),
     moras_atipicas |-> Len(result.moras_atipicas),
     sin_tipo_cliente |-> Len(result.sin_tipo_cliente),
     sin_vendedor |-> Len(result.sin_vendedor),
     cancelados |-> Len(result.documentos_cancelados),
     total_hallazgos |->
         Len(result.importes_atipicos) + Len(result.recaudos_atipicos)
         + Len(result.moras_atipicas) + Len(result.sin_tipo_cliente)
         + Len(result.sin_vendedor) + Len(result.documentos_cancelados)]

\* the findings of run_audit, before the summary
Hallazgos(d, df_reporte, config) ==
    [importes_atipicos |-> DetectarImportesAtipicos(PrepararDatos(d), config),
     sin_tipo_cliente |-> DetectarSinTipoCliente(PrepararDatos(d)),
     sin_vendedor |-> DetectarSinVendedor(PrepararDatos(d)),
     calidad_datos |-> EvaluarCalidadDatos(PrepararDatos(d)),
     documentos_cancelados |-> AnalizarCancelados(PrepararDatos(d)),
     recaudos_atipicos |->
         IF df_reporte = <<>> THEN <<>>
         ELSE DetectarAtipicosDelta(df_reporte, "DELTA_RECAUDO",
                                    config.delta_recaudo_zscore_umbral),
     moras_atipicas |->
         IF df_reporte = <<>> THEN <<>>
         ELSE DetectarAtipicosDelta(df_reporte, "DELTA_MORA",
                                    config.delta_mora_zscore_umbral)]

RunAudit(d, df_reporte, config) ==
    LET result == Hallazgos(d, df_reporte, config)
    IN  [importes_atipicos |-> result.importes_atipicos,
         sin_tipo_cliente |-> result.sin_tipo_cliente,
         sin_vendedor |-> result.sin_vendedor,
         calidad_datos |-> result.calidad_datos,
         documentos_cancelados |-> result.documentos_cancelados,
         recaudos_atipicos |-> result.recaudos_atipicos,
         moras_atipicas |-> result.moras_atipicas,
         resumen |-> GenerarResumen(PrepararDatos(d), result)]

(***************************************************************************)
(* analytics.py                                                            *)
(***************************************************************************)
\* Analytics._preparar: bands dropped, numeric NaN to 0 (the deltas and the
\* invoice balance included), TIPO_IMPTE normalised
AnalyticsPreparar(vista) ==
    LET d == ColumnasEnMayusculas(vista)
    IN  [i \in 1..Len(d) |->
            [c \in (DOMAIN d[i]) \ {"_BAND_GROUP"} |->
                CASE c \in {"IMPORTE", "IMPUESTO", "SALDO_FACTURA", "DELTA_MORA",
                            "DELTA_RECAUDO"} ->
                        IF d[i][c] = NULL THEN 0 ELSE d[i][c]
                  [] c = "TIPO_IMPTE" -> NormTipo(d[i][c])
                  [] OTHER -> d[i][c]]]

ColPivotRango(min_d, max_d) ==
    IF max_d = NULL
    THEN "FACTURAS_VENCIDAS (+" \o ToString(min_d - 1) \o ")"
    ELSE "FACTURAS_VENCIDAS (" \o ToString(min_d) \o "-" \o ToString(max_d) \o ")"

\* Analytics._bucket_mora for one row
BucketMora(r, rangos_antiguedad) ==
    IF "DELTA_MORA" \notin DOMAIN r THEN "Sin datos"
    ELSE LET mora == r.DELTA_MORA
             n == Len(rangos_antiguedad)
         IN  NpSelect(
                 [k \in 1..(n + 1) |->
                     IF k = 1 THEN mora # NULL /\ mora <= 0
                     ELSE LET rg == rangos_antiguedad[k - 1]
                          IN  IF rg.max = NULL
                              THEN mora # NULL /\ mora > rg.min - 1
                              ELSE mora # NULL /\ mora >= rg.min
                                   /\ mora <= rg.max],
                 [k \in 1..(n + 1) |->
                     IF k = 1 THEN "Por vencer"
                     ELSE rangos_antiguedad[k - 1].label],
                 "Sin clasificar")

\* _label_a_rango
LabelARango(label, rangos_antiguedad) ==
    IF label = "Por vencer" THEN "FACTURAS_VIGENTES"
    ELSE IF \E k \in 1..Len(rangos_antiguedad) :
                rangos_antiguedad[k].label = label
         THEN LET k == CHOOSE j \in 1..Len(rangos_antiguedad) :
                          /\ rangos_antiguedad[j].label = label
                          /\ \A h \in 1..(j - 1) :
                                rangos_antiguedad[h].label # label
              IN  ColPivotRango(rangos_antiguedad[k].min,
                                rangos_antiguedad[k].max)
         ELSE "nan"

Monedas == <<"MXN", "USD">>

\* the share as a fraction of one, without the factor 100
PctDeMonedaFraccion(importe_total, total) ==
    LET g == Max2(Mcd(Abs(importe_total), total), 1)
    IN  ((Abs(importe_total) \div g) * 100) \div (total \div g)

\* (IMPORTE_TOTAL / total_por_moneda * 100).round(2) for a positive total,
\* in hundredths of a percent, ties to even
PctDeMoneda(importe_total, total) ==
    LET g == Max2(Mcd(Abs(importe_total), total), 1)
        n == (Abs(importe_total) \div g) * 10000
        q == n \div (total \div g)
        r == n % (total \div g)
        m == IF 2 * r > total \div g \/ (2 * r = total \div g /\ q % 2 = 1)
             THEN q + 1 ELSE q
    IN  IF importe_total < 0 THEN -m ELSE m

AntiguedadCartera(df_abiertos, rangos_antiguedad) ==
    LET cargos == IF TieneColumna(df_abiertos, "TIPO_IMPTE")
                  THEN Filtrar(df_abiertos, [i \in 1..Len(df_abiertos) |->
                                   df_abiertos[i].TIPO_IMPTE = "C"])
                  ELSE df_abiertos
        orden_rangos == <<"Por vencer">>
                        \o [k \in 1..Len(rangos_antiguedad) |->
                               rangos_antiguedad[k].label]
                        \o <<"Sin clasificar">>
        nr == Len(orden_rangos)
        grupo(m, g) == Filtrar(cargos, [i \in 1..Len(cargos) |->
                           /\ cargos[i].MONEDA = m
                           /\ BucketMora(cargos[i], rangos_antiguedad) = g])
        importe(m, g) == Suma(grupo(m, g), [i \in 1..Len(grupo(m, g)) |->
                                              grupo(m, g)[i].SALDO_FACTURA])
        total_por_moneda(m) ==
            Suma(cargos, [i \in 1..Len(cargos) |->
                IF cargos[i].MONEDA = m THEN cargos[i].SALDO_FACTURA ELSE 0])
        fila(m, g) ==
            [MONEDA |-> m,
             RANGO_ANTIGUEDAD |-> LabelARango(g, rangos_antiguedad),
             NUM_DOCUMENTOS |-> Len(grupo(m, g)),
             IMPORTE_TOTAL |-> Round2(importe(m, g)),
             PCT_DEL_TOTAL |->
                 IF total_por_moneda(m) > 0
                 THEN PctDeMoneda(importe(m, g), total_por_moneda(m)) ELSE 0]
        todas == [k \in 1..(Len(Monedas) * nr) |->
                     fila(Monedas[((k - 1) \div nr) + 1],
                          orden_rangos[((k - 1) % nr) + 1])]
    IN  Filtrar(todas, [k \in 1..Len(todas) |-> todas[k].NUM_DOCUMENTOS > 0])

Clientes == <<"ALPHA", "BETA", "GAMMA">>

AntiguedadPorCliente(df_totales, moneda, rangos_antiguedad) ==
    LET d == Filtrar(df_totales, [i \in 1..Len(df_totales) |->
                         df_totales[i].MONEDA = moneda])
        df_cargos(cl) == Filtrar(d, [i \in 1..Len(d) |->
                             d[i].TIPO_IMPTE = "C" /\ d[i].NOMBRE_CLIENTE = cl])
        df_abonos(cl) == Filtrar(d, [i \in 1..Len(d) |->
                             d[i].TIPO_IMPTE = "R" /\ d[i].NOMBRE_CLIENTE = cl])
        total(t) == Suma(t, [i \in 1..Len(t) |-> Monto(t[i])])
        pagadas(cl) == Filtrar(df_cargos(cl), [i \in 1..Len(df_cargos(cl)) |->
                           df_cargos(cl)[i].SALDO_FACTURA = 0])
        abiertos(cl) == Filtrar(df_cargos(cl), [i \in 1..Len(df_cargos(cl)) |->
                            df_cargos(cl)[i].SALDO_FACTURA > 0])
        enRango(cl, g) ==
            Round2(Suma(abiertos(cl), [i \in 1..Len(abiertos(cl)) |->
                IF BucketMora(abiertos(cl)[i], rangos_antiguedad) = g
                THEN abiertos(cl)[i].SALDO_FACTURA ELSE 0]))
        fila(cl) ==
            [MONEDA |-> moneda,
             NOMBRE_CLIENTE |-> cl,
             NUM_DOCUMENTOS |-> Len(df_cargos(cl)),
             FACTURAS_PAGADAS |-> Round2(total(pagadas(cl))),
             FACTURAS_VIGENTES |-> enRango(cl, "Por vencer"),
             FACTURAS_VENCIDAS |->
                 [k \in 1..Len(rangos_antiguedad) |->
                     [columna |-> ColPivotRango(rangos_antiguedad[k].min,
                                                rangos_antiguedad[k].max),
                      saldo |-> enRango(cl, rangos_antiguedad[k].label)]],
             TOTAL_CARGOS |-> Round2(total(df_cargos(cl))),
             TOTAL_ABONOS |-> Round2(total(df_abonos(cl))),
             SALDO_PENDIENTE |->
                 Round2(Round2(total(df_cargos(cl)))
                        - Round2(total(df_abonos(cl))))]
        todos == [k \in 1..Len(Clientes) |-> fila(Clientes[k])]
    IN  Filtrar(todos, [k \in 1..Len(Clientes) |->
            df_cargos(Clientes[k]) # <<>> \/ df_abonos(Clientes[k]) # <<>>])

RunAnalytics(vistas, rangos_antiguedad) ==
    [antiguedad_cartera |->
         AntiguedadCartera(AnalyticsPreparar(vistas.movimientos_abiertos_cxc),
                           rangos_antiguedad),
     antiguedad_por_cliente_mxn |->
         AntiguedadPorCliente(AnalyticsPreparar(vistas.movimientos_totales_cxc),
                              "MXN", rangos_antiguedad),
     antiguedad_por_cliente_usd |->
         AntiguedadPorCliente(AnalyticsPreparar(vistas.movimientos_totales_cxc),
                              "USD", rangos_antiguedad)]

(***************************************************************************)
(* kpis.py                                                                 *)
(***************************************************************************)
\* kpis._preparar and kpis._filtrar_activos
FiltrarActivos(d) == FiltrarMovimientos(Preparar(d))

\* the invoice balances with no payment netted against any charge
SaldosPorFacturaSinAbonos(d) ==
    LET cargos == Filtrar(d, [i \in 1..Len(d) |-> d[i].TIPO_IMPTE = "C"])
    IN  [i \in 1..Len(cargos) |->
            [DOCTO_CC_ID |-> cargos[i].DOCTO_CC_ID,
             NOMBRE_CLIENTE |-> cargos[i].NOMBRE_CLIENTE,
             FECHA_VENCIMIENTO |-> cargos[i].FECHA_VENCIMIENTO,
             FECHA_EMISION |-> cargos[i].FECHA_EMISION,
             MONTO_CARGO |-> Monto(cargos[i]),
             MONTO_ABONOS |-> 0,
             SALDO |-> Round2(Monto(cargos[i]))]]

SaldosPorFactura(d) ==
    LET cargos == Filtrar(d, [i \in 1..Len(d) |-> d[i].TIPO_IMPTE = "C"])
        abonos(r) == IF TieneColumna(d, "DOCTO_CC_ACR_ID")
                     THEN AbonosPorCargo(d, r.DOCTO_CC_ID) ELSE 0
    IN  [i \in 1..Len(cargos) |->
            [DOCTO_CC_ID |-> cargos[i].DOCTO_CC_ID,
             NOMBRE_CLIENTE |-> cargos[i].NOMBRE_CLIENTE,
             FECHA_VENCIMIENTO |-> cargos[i].FECHA_VENCIMIENTO,
             FECHA_EMISION |-> cargos[i].FECHA_EMISION,
             MONTO_CARGO |-> Monto(cargos[i]),
             MONTO_ABONOS |-> abonos(cargos[i]),
             SALDO |-> Round2(Monto(cargos[i]) - abonos(cargos[i]))]]

\* round(factor * num / den, 1) for den > 0, as a number of tenths (900 is
\* 90.0), ties to even; the quotient is reduced before it is multiplied
Round1(num, den, factor) ==
    LET g == Max2(Mcd(Abs(num), den), 1)
        n == (Abs(num) \div g) * factor * 10
        d == den \div g
        q == n \div d
        r == n % d
        m == IF 2 * r > d \/ (2 * r = d /\ q % 2 = 1) THEN q + 1 ELSE q
    IN  IF num < 0 THEN -m ELSE m

\* FECHA_EMISION inside the window; a comparison with NaT is False
EnPeriodo(r, inicio_periodo) ==
    /\ r.FECHA_EMISION # NULL
    /\ r.FECHA_EMISION >= inicio_periodo
    /\ r.FECHA_EMISION <= Hoy

\* sum of IMPORTE + IMPUESTO over the rows of one kind that satisfy a mask
SumaDeTipo(d, tipo, mask) ==
    Suma(d, [i \in 1..Len(d) |->
        IF d[i].TIPO_IMPTE = tipo /\ mask[i] THEN Monto(d[i]) ELSE 0])

\* the DSO with every charge in the denominator, whenever it was issued
CalcularDsoSinVentana(d, saldos, inicio_periodo, dias_periodo) ==
    LET saldo_total == Suma(saldos, [i \in 1..Len(saldos) |-> saldos[i].SALDO])
        ventas == SumaDeTipo(d, "C", [i \in 1..Len(d) |-> TRUE])
    IN  IF ventas > 0 THEN Round1(saldo_total, ventas, dias_periodo) ELSE 0

\* VALOR of the DSO row, in tenths of a day
CalcularDso(d, saldos, inicio_periodo, dias_periodo) ==
    LET saldo_total == Suma(saldos, [i \in 1..Len(saldos) |-> saldos[i].SALDO])
        ventas_periodo ==
            SumaDeTipo(d, "C", [i \in 1..Len(d) |-> EnPeriodo(d[i], inicio_periodo)])
    IN  IF ventas_periodo > 0
        THEN Round1(saldo_total, ventas_periodo, dias_periodo) ELSE 0

\* the CEI that reports 0 when nothing is collectible
CalcularCeiCero(d, inicio_periodo) ==
    LET en_periodo == [i \in 1..Len(d) |-> EnPeriodo(d[i], inicio_periodo)]
        cobros_periodo == SumaDeTipo(d, "R", en_periodo)
        cobrable == SumaDeTipo(d, "C", [i \in 1..Len(d) |-> TRUE])
                    - SumaDeTipo(d, "R", [i \in 1..Len(d) |-> TRUE])
                    + cobros_periodo
    IN  IF cobrable > 0 THEN Round1(cobros_periodo, cobrable, 100) ELSE 0

\* VALOR of the CEI row, in tenths of a percent
CalcularCei(d, inicio_periodo) ==
    LET en_periodo == [i \in 1..Len(d) |-> EnPeriodo(d[i], inicio_periodo)]
        todas == [i \in 1..Len(d) |-> TRUE]
        cargos_periodo == SumaDeTipo(d, "C", en_periodo)
        cobros_periodo == SumaDeTipo(d, "R", en_periodo)
        saldo_actual == SumaDeTipo(d, "C", todas) - SumaDeTipo(d, "R", todas)
        saldo_inicio == saldo_actual - cargos_periodo + cobros_periodo
        cobrable == saldo_inicio + cargos_periodo
    IN  IF cobrable > 0 THEN Round1(cobros_periodo, cobrable, 100) ELSE 1000

\* the delinquency index that counts a charge due today as past due
CalcularMorosidadHastaHoy(saldos) ==
    LET cartera_total == Suma(saldos, [i \in 1..Len(saldos) |-> saldos[i].SALDO])
        cartera_vencida ==
            Suma(saldos, [i \in 1..Len(saldos) |->
                IF saldos[i].FECHA_VENCIMIENTO # NULL
                   /\ saldos[i].FECHA_VENCIMIENTO <= Hoy
                THEN saldos[i].SALDO ELSE 0])
    IN  IF cartera_total > 0
        THEN Round1(cartera_vencida, cartera_total, 100) ELSE 0

\* VALOR of the delinquency row, in tenths of a percent
CalcularMorosidad(saldos) ==
    LET cartera_total == Suma(saldos, [i \in 1..Len(saldos) |-> saldos[i].SALDO])
        cartera_vencida ==
            Suma(saldos, [i \in 1..Len(saldos) |->
                IF saldos[i].FECHA_VENCIMIENTO # NULL
                   /\ saldos[i].FECHA_VENCIMIENTO < Hoy
                THEN saldos[i].SALDO ELSE 0])
    IN  IF cartera_total > 0
        THEN Round1(cartera_vencida, cartera_total, 100) ELSE 0

\* saldos.groupby("NOMBRE_CLIENTE")["SALDO"].sum().round(2): one row per
\* client that has a charge, in the order of the names
SaldoPorCliente(saldos) ==
    LET de(cl) == Filtrar(saldos, [i \in 1..Len(saldos) |->
                      saldos[i].NOMBRE_CLIENTE = cl])
        todos == [k \in 1..Len(Clientes) |->
                     [NOMBRE_CLIENTE |-> Clientes[k],
                      SALDO |-> Round2(Suma(de(Clientes[k]),
                                   [i \in 1..Len(de(Clientes[k])) |->
                                       de(Clientes[k])[i].SALDO]))]]
    IN  Filtrar(todos, [k \in 1..Len(Clientes) |-> de(Clientes[k]) # <<>>])

\* sort_values("SALDO", ascending=False): rows with equal balances keep
\* their order
OrdenarPorSaldo(t) == SortValues(t, [i \in 1..Len(t) |-> <<-(t[i].SALDO)>>])

\* (num / den * 100).round(2) for den > 0, in hundredths of a percent
PctDelTotal(num, den) ==
    LET g == Max2(Mcd(Abs(num), den), 1)
        n == (Abs(num) \div g) * 10000
        d == den \div g
        q == n \div d
        r == n % d
        m == IF 2 * r > d \/ (2 * r = d /\ q % 2 = 1) THEN q + 1 ELSE q
    IN  IF num < 0 THEN -m ELSE m

\* np.where(PCT_ACUMULADO <= 80, "A", np.where(PCT_ACUMULADO <= 95, "B", "C"))
Clasificacion(pct_acumulado) ==
    IF pct_acumulado <= 8000 THEN "A"
    ELSE IF pct_acumulado <= 9500 THEN "B" ELSE "C"

\* kpis_concentracion; PCT_DEL_TOTAL and PCT_ACUMULADO in hundredths
CalcularConcentracion(saldos) ==
    LET por_cliente == OrdenarPorSaldo(SaldoPorCliente(saldos))
        n == Len(por_cliente)
        total == Suma(por_cliente, [i \in 1..n |-> por_cliente[i].SALDO])
        pct == [i \in 1..n |-> PctDelTotal(por_cliente[i].SALDO, total)]
        acumulado == [i \in 1..n |-> SeqSum(SubSeq(pct, 1, i))]
    IN  IF total <= 0 THEN <<>>
        ELSE [i \in 1..n |->
                 [NOMBRE_CLIENTE |-> por_cliente[i].NOMBRE_CLIENTE,
                  SALDO |-> por_cliente[i].SALDO,
                  PCT_DEL_TOTAL |-> pct[i],
                  PCT_ACUMULADO |-> acumulado[i],
                  CLASIFICACION |-> Clasificacion(acumulado[i])]]

\* kpis._preparar on LIMITE_CREDITO: to_numeric(...).fillna(0)
LimiteNumerico(r) == IF r.LIMITE_CREDITO = NULL THEN 0 ELSE r.LIMITE_CREDITO

\* df.groupby("NOMBRE_CLIENTE")["LIMITE_CREDITO"].max() of one client
LimiteDe(d, cl) ==
    LET S == {LimiteNumerico(d[i]) :
                 i \in {j \in 1..Len(d) : d[j].NOMBRE_CLIENTE = cl}}
    IN  CHOOSE m \in S : \A v \in S : v <= m

\* np.select(condiciones, opciones, default="NORMAL"); a NaN utilisation
\* compares False
Alerta(limite, utilizacion) ==
    NpSelect(<<limite = 0,
               utilizacion # NULL /\ utilizacion > 1000,
               utilizacion # NULL /\ utilizacion >= 900,
               utilizacion # NULL /\ utilizacion >= 700>>,
             <<"SIN_LIMITE", "SOBRE_LIMITE", "CRITICO", "ALTO">>, "NORMAL")

\* kpis_limite_credito; UTILIZACION_PCT in tenths of a percent
CalcularLimiteCredito(d, saldos) ==
    IF ~TieneColumna(d, "LIMITE_CREDITO") \/ d = <<>> THEN <<>>
    ELSE LET saldo_cliente == SaldoPorCliente(saldos)
             fila(r) ==
                 LET limite == LimiteDe(d, r.NOMBRE_CLIENTE)
                     utilizacion == IF limite > 0
                                    THEN Round1(r.SALDO, limite, 100) ELSE NULL
                 IN  [NOMBRE_CLIENTE |-> r.NOMBRE_CLIENTE,
                      SALDO |-> r.SALDO,
                      LIMITE_CREDITO |-> limite,
                      UTILIZACION_PCT |-> utilizacion,
                      DISPONIBLE |-> Round2(limite - r.SALDO),
                      ALERTA |-> Alerta(limite, utilizacion)]
         IN  OrdenarPorSaldo([k \in 1..Len(saldo_cliente) |->
                                 fila(saldo_cliente[k])])

\* the sums from which generar_kpis derives DSO, CEI and the delinquency index
GenerarKpis(df_crudo, dias_periodo) ==
    LET activo == FiltrarActivos(df_crudo)
        saldos == SaldosPorFactura(activo)
        inicio_periodo == Hoy - dias_periodo
        en_periodo(r) == /\ r.FECHA_EMISION # NULL
                         /\ r.FECHA_EMISION >= inicio_periodo
                         /\ r.FECHA_EMISION <= Hoy
        sumaMonto(tipo, soloPeriodo) ==
            Suma(activo, [i \in 1..Len(activo) |->
                IF activo[i].TIPO_IMPTE = tipo
                   /\ (soloPeriodo => en_periodo(activo[i]))
                THEN Monto(activo[i]) ELSE 0])
    IN  [saldos |-> saldos,
         dso |-> CalcularDso(activo, saldos, inicio_periodo, dias_periodo),
         cei |-> CalcularCei(activo, inicio_periodo),
         morosidad |-> CalcularMorosidad(saldos),
         kpis_concentracion |-> CalcularConcentracion(saldos),
         kpis_limite_credito |-> CalcularLimiteCredito(activo, saldos),
         saldo_total |-> Suma(saldos, [i \in 1..Len(saldos) |-> saldos[i].SALDO]),
         ventas_periodo |-> sumaMonto("C", TRUE),
         cargos_periodo |-> sumaMonto("C", TRUE),
         cobros_periodo |-> sumaMonto("R", TRUE),
         saldo_actual |-> sumaMonto("C", FALSE) - sumaMonto("R", FALSE),
         cartera_vencida |->
             Suma(saldos, [i \in 1..Len(saldos) |->
                 IF saldos[i].FECHA_VENCIMIENTO # NULL
                    /\ saldos[i].FECHA_VENCIMIENTO < Hoy
                 THEN saldos[i].SALDO ELSE 0])]

(***************************************************************************)
(* main.py                                                                 *)
(***************************************************************************)
PrepararRegistrosTotales(d) == AgregarBandasGrupo(d)

FiltrarPorAcreditar(df_totales) ==
    IF ~TieneColumna(df_totales, "TIPO_IMPTE") THEN <<>> ELSE
    Filtrar(df_totales, [i \in 1..Len(df_totales) |->
        NormTipo(df_totales[i].TIPO_IMPTE) = "A" /\ ~EsCancelado(df_totales[i])])

FiltrarCancelados(df_totales) ==
    IF ~TieneColumna(df_totales, "CANCELADO") THEN <<>> ELSE
    Filtrar(df_totales, [i \in 1..Len(df_totales) |-> EsCancelado(df_totales[i])])

\* the dict cxc of run_pipeline
VistasCxc(d, resultado_reporte) ==
    [movimientos_abiertos_cxc |-> resultado_reporte.movimientos_abiertos_cxc,
     movimientos_cerrados_cxc |-> resultado_reporte.movimientos_cerrados_cxc,
     movimientos_totales_cxc |-> resultado_reporte.movimientos_totales_cxc,
     registros_por_acreditar_cxc |->
         FiltrarPorAcreditar(PrepararRegistrosTotales(d)),
     registros_cancelados_cxc |->
         FiltrarCancelados(PrepararRegistrosTotales(d)),
     registros_totales_cxc |-> PrepararRegistrosTotales(d)]

(***************************************************************************)
(* Configuration (config.settings)                                         *)
(***************************************************************************)
Rango(min_d, max_d, label) == [min |-> min_d, max |-> max_d, label |-> label]

\* the ranges the pivot columns of the shipped reports are named after:
\* FACTURAS_VENCIDAS (0-30) ... (91-120), (+120)
RANGOS_ANTIGUEDAD ==
    <<Rango(0, 30, "0-30 dias"), Rango(31, 60, "31-60 dias"),
      Rango(61, 90, "61-90 dias"), Rango(91, 120, "91-120 dias"),
      Rango(121, NULL, "Mas de 120 dias")>>

\* a configuration with the ranges and labels of CATEGORIA_MORA
RangosComoReporte ==
    <<Rango(1, 30, "Mora temprana (1-30)"), Rango(31, 60, "Mora media (31-60)"),
      Rango(61, 90, "Mora alta (61-90)"), Rango(91, NULL, "Mora critica (>90)")>>

\* a configuration whose last range is bounded
RangosAcotados == SubSeq(RANGOS_ANTIGUEDAD, 1, 4)

Umbrales == {0, 1, 3}
\* thresholds around the largest z-score a series of six values can have
UmbralesImportes == {2, 3}

Anomalias(u) ==
    [importe_zscore_umbral |-> u, delta_recaudo_zscore_umbral |-> u,
     delta_mora_zscore_umbral |-> u]

(***************************************************************************)
(* run_pipeline                                                            *)
(***************************************************************************)
ReporteVacio ==
    [reporte_cxc |-> <<>>, por_acreditar |-> <<>>,
     movimientos_abiertos_cxc |-> <<>>, movimientos_cerrados_cxc |-> <<>>,
     movimientos_totales_cxc |-> <<>>]

\* the values a skip flag of run_pipeline takes
SkipFlags(esc) == IF esc = "salida" THEN BOOLEAN ELSE {FALSE}

\* the state at the entry of run_pipeline for one family of raw tables
InitDe(esc) ==
    /\ escenario = esc
    /\ rangos \in CASE escenario = "mora" ->
                          {RANGOS_ANTIGUEDAD, RangosComoReporte}
                    [] escenario = "monedas" ->
                          {RANGOS_ANTIGUEDAD, RangosAcotados}
                    [] OTHER -> {RANGOS_ANTIGUEDAD}
    /\ anomalias \in CASE escenario = "atipicos" ->
                             {Anomalias(u) : u \in Umbrales}
                       [] escenario = "importes" ->
                             {Anomalias(u) : u \in UmbralesImportes}
                       [] OTHER -> {Anomalias(UmbralPorDefecto)}
    /\ df = <<>>
    /\ pc = "extraer"
    /\ df_filtrado = <<>>
    /\ reporte = ReporteVacio
    /\ cxc = VistasCxc(<<>>, ReporteVacio)
    /\ auditoria = RunAudit(<<>>, <<>>, anomalias)
    /\ analisis = RunAnalytics(VistasCxc(<<>>, ReporteVacio), rangos)
    /\ kpis = GenerarKpis(<<>>, DiasPeriodo)
    /\ archivos = {}
    /\ skip_audit \in SkipFlags(esc)
    /\ skip_analytics \in SkipFlags(esc)
    /\ skip_kpis \in SkipFlags(esc)
    /\ codigo_salida = NULL

Init == \E esc \in Escenarios : InitDe(esc)
InitSaldos == InitDe("saldos")
InitMora == InitDe("mora")
InitRecaudo == InitDe("recaudo")
InitAtipicos == InitDe("atipicos")
InitImportes == InitDe("importes")
InitKpis == InitDe("kpis")
InitClientes == InitDe("clientes")
InitSalida == InitDe("salida")
InitVistas == InitDe("vistas")
InitMonedas == InitDe("monedas")

\* the columns the master query may leave out, one at a time ("" is none)
ColumnasAusentes(esc) ==
    CASE esc = "clientes" -> {"", "LIMITE_CREDITO"}
      [] esc = "salida" -> {"", "FECHA_EMISION", "IMPORTE"}
      [] OTHER -> {""}

\* the sets of columns that a raw table may name in lower case
ColumnasEnMinusculas(esc) ==
    IF esc = "vistas"
    THEN {{}, {"CANCELADO"}, {"TIPO_IMPTE"}, DOMAIN Minuscula}
    ELSE {{}}

\* the files of one run, and the workbooks in the order they are written
ArchivosExcel == <<"cxc", "analisis", "kpis", "auditoria">>
ArchivosDeSalida == Range(ArchivosExcel) \cup {"pdf"}

\* how many workbooks get written before a write raises (4: none raises)
LibrosEscritos(esc) == IF esc = "salida" THEN 0..4 ELSE {4}
\* whether generar_reporte_pdf succeeds; its failure is caught and logged
PdfGenerado(esc) == IF esc = "salida" THEN BOOLEAN ELSE {TRUE}

\* step 1: the master query returns the raw table
ExecuteSqlFile ==
    /\ pc = "extraer"
    /\ \E conAcr \in IF escenario = "saldos" THEN BOOLEAN ELSE {TRUE} :
         \E sin \in ColumnasAusentes(escenario) :
            \E minusculas \in ColumnasEnMinusculas(escenario) :
               \E t \in Tablas(escenario, conAcr) :
                  df' = IF sin # "" THEN SinColumna(t, sin)
                        ELSE IF minusculas # {} THEN EnMinusculas(t, minusculas)
                        ELSE t
    /\ pc' = "reporte"
    /\ UNCHANGED <<escenario, rangos, anomalias, df_filtrado, reporte, cxc,
                   auditoria, analisis, kpis, archivos, skip_audit,
                   skip_analytics, skip_kpis, codigo_salida>>

\* step 1 raises: the error is logged and run_pipeline returns 1
ErrorAlExtraer ==
    /\ pc = "extraer"
    /\ pc' = "abortado"
    /\ codigo_salida' = 1
    /\ UNCHANGED <<escenario, rangos, anomalias, df, df_filtrado, reporte, cxc,
                   auditoria, analisis, kpis, archivos, skip_audit,
                   skip_analytics, skip_kpis>>

\* the columns _calcular_saldo_factura reads without a guard
ColumnasDelReporte(d) ==
    /\ TieneColumna(ColumnasEnMayusculas(d), "IMPORTE")
    /\ TieneColumna(ColumnasEnMayusculas(d), "IMPUESTO")
    /\ TieneColumna(ColumnasEnMayusculas(d), "TIPO_IMPTE")

\* step 2: operative report and the dict of views; a missing column raises
\* KeyError, which nothing catches: run_pipeline returns no value
PasoReporte ==
    /\ pc = "reporte"
    /\ IF ColumnasDelReporte(df)
       THEN /\ df_filtrado' = DfFiltrado(df)
            /\ reporte' = GenerarReporteCxc(df)
            /\ cxc' = VistasCxc(df, GenerarReporteCxc(df))
            /\ pc' = "auditoria"
       ELSE /\ pc' = "abortado"
            /\ UNCHANGED <<df_filtrado, reporte, cxc>>
    /\ UNCHANGED <<escenario, rangos, anomalias, df, auditoria, analisis, kpis,
                   archivos, skip_audit, skip_analytics, skip_kpis,
                   codigo_salida>>

\* step 3: audit of the raw table and of the report, unless skip_audit
PasoAuditoria ==
    /\ pc = "auditoria"
    /\ auditoria' = IF skip_audit THEN auditoria
                    ELSE RunAudit(df, reporte.reporte_cxc, anomalias)
    /\ pc' = "analisis"
    /\ UNCHANGED <<escenario, rangos, anomalias, df, df_filtrado, reporte, cxc,
                   analisis, kpis, archivos, skip_audit, skip_analytics,
                   skip_kpis, codigo_salida>>

\* steps 4 and 4b: portfolio analysis, then the PDF of the analysis, unless
\* skip_analytics
PasoAnalisis ==
    /\ pc = "analisis"
    /\ IF skip_analytics
       THEN UNCHANGED <<analisis, archivos>>
       ELSE /\ analisis' = RunAnalytics(cxc, rangos)
            /\ \E generado \in PdfGenerado(escenario) :
                 archivos' = IF generado THEN archivos \cup {"pdf"}
                             ELSE archivos
    /\ pc' = "kpis"
    /\ UNCHANGED <<escenario, rangos, anomalias, df, df_filtrado, reporte, cxc,
                   auditoria, kpis, skip_audit, skip_analytics, skip_kpis,
                   codigo_salida>>

\* step 5: strategic KPIs, unless skip_kpis; _calcular_dso reads
\* FECHA_EMISION without a guard and its KeyError is not caught
PasoKpis ==
    /\ pc = "kpis"
    /\ IF skip_kpis
       THEN kpis' = kpis /\ pc' = "exportar"
       ELSE IF TieneColumna(ColumnasEnMayusculas(df), "FECHA_EMISION")
       THEN kpis' = GenerarKpis(df, DiasPeriodo) /\ pc' = "exportar"
       ELSE kpis' = kpis /\ pc' = "abortado"
    /\ UNCHANGED <<escenario, rangos, anomalias, df, df_filtrado, reporte, cxc,
                   auditoria, analisis, archivos, skip_audit, skip_analytics,
                   skip_kpis, codigo_salida>>

\* step 6: exportar_cuatro_exceles writes the four workbooks one after the
\* other and run_pipeline returns 0; a write that raises ends the run, leaves
\* the earlier workbooks, and is not caught
PasoExportar ==
    /\ pc = "exportar"
    /\ \E n \in LibrosEscritos(escenario) :
         /\ archivos' = archivos \cup {ArchivosExcel[k] : k \in 1..n}
         /\ pc' = IF n = Len(ArchivosExcel) THEN "fin" ELSE "abortado"
         /\ codigo_salida' = IF n = Len(ArchivosExcel) THEN 0 ELSE NULL
    /\ UNCHANGED <<escenario, rangos, anomalias, df, df_filtrado, reporte, cxc,
                   auditoria, analisis, kpis, skip_audit, skip_analytics,
                   skip_kpis>>

Next ==
    \/ ExecuteSqlFile
    \/ ErrorAlExtraer
    \/ PasoReporte
    \/ PasoAuditoria
    \/ PasoAnalisis
    \/ PasoKpis
    \/ PasoExportar

Spec == Init /\ [][Next]_vars

\* the pipeline on one family of raw tables
SpecSaldos == InitSaldos /\ [][Next]_vars
SpecMora == InitMora /\ [][Next]_vars
SpecRecaudo == InitRecaudo /\ [][Next]_vars
SpecAtipicos == InitAtipicos /\ [][Next]_vars
SpecImportes == InitImportes /\ [][Next]_vars
SpecKpis == InitKpis /\ [][Next]_vars
SpecClientes == InitClientes /\ [][Next]_vars
SpecSalida == InitSalida /\ [][Next]_vars
SpecVistas == InitVistas /\ [][Next]_vars
SpecMonedas == InitMonedas /\ [][Next]_vars

(***************************************************************************)
(* Properties                                                              *)
(***************************************************************************)
\* what the raw table says, read without the pipeline's intermediate tables
Valor(x) == IF x = NULL THEN 0 ELSE x
MontoCrudo(r) == Valor(r.IMPORTE) + Valor(r.IMPUESTO)
EsTipo(r, t) == NormTipo(r.TIPO_IMPTE) = t
Activa(r) == ~EsCancelado(r)
Referencia(r) == IF "DOCTO_CC_ACR_ID" \in DOMAIN r THEN r.DOCTO_CC_ACR_ID ELSE NULL

\* DOCTO_CC_ID of the non-cancelled charges and payments of the raw table
CargosActivos == {i \in 1..Len(df) : EsTipo(df[i], "C") /\ Activa(df[i])}
AbonosActivos == {i \in 1..Len(df) : EsTipo(df[i], "R") /\ Activa(df[i])}
AbonosVinculados(id) == {j \in AbonosActivos : Referencia(df[j]) = id}
MontosCrudos == [i \in 1..Len(df) |-> MontoCrudo(df[i])]

SaldoEsperado(id) ==
    Round2(MontoCrudo(df[id]) - SumaConj(AbonosVinculados(id), MontosCrudos))

ReporteHecho == pc \in {"auditoria", "analisis", "kpis", "exportar", "fin"}
KpisHechos == pc = "exportar"

\* the value of column c in the only row of `tabla` whose column `llave` is id
FilasCon(tabla, llave, id) == {k \in 1..Len(tabla) : tabla[k][llave] = id}
ValorDe(tabla, llave, id, c) ==
    tabla[CHOOSE k \in FilasCon(tabla, llave, id) : TRUE][c]

\* C1: for every non-cancelled charge, the invoice balance of the report and
\* of the KPI engine is (principal + tax) minus the sum of (principal + tax)
\* of the non-cancelled payments that reference the charge, rounded to two
\* decimals and never clamped: it is negative when the payments exceed it.
C1_SaldoFactura ==
    /\ ReporteHecho =>
         \A id \in CargosActivos :
            /\ Cardinality(FilasCon(df_filtrado, "DOCTO_CC_ID", id)) = 1
            /\ ValorDe(df_filtrado, "DOCTO_CC_ID", id, "SALDO_FACTURA")
                 = SaldoEsperado(id)
    /\ KpisHechos =>
         \A id \in CargosActivos :
            /\ Cardinality(FilasCon(kpis.saldos, "DOCTO_CC_ID", id)) = 1
            /\ ValorDe(kpis.saldos, "DOCTO_CC_ID", id, "SALDO") = SaldoEsperado(id)

\* a charge overpaid by its linked payments, with a negative balance in both
C1_Witness ==
    /\ KpisHechos
    /\ \E id \in CargosActivos :
          /\ AbonosVinculados(id) # {}
          /\ SaldoEsperado(id) < 0
          /\ ValorDe(df_filtrado, "DOCTO_CC_ID", id, "SALDO_FACTURA") < 0
          /\ ValorDe(kpis.saldos, "DOCTO_CC_ID", id, "SALDO") < 0

\* the rows of a client in df_filtrado, which is in the order of the running
\* balance, and the last of them
FilasCliente(cl) ==
    {k \in 1..Len(df_filtrado) : df_filtrado[k].NOMBRE_CLIENTE = cl}
UltimaFila(cl) == CHOOSE k \in FilasCliente(cl) : \A j \in FilasCliente(cl) : j <= k
SaldoFinalCliente(cl) == df_filtrado[UltimaFila(cl)].SALDO_CLIENTE

\* sum of SALDO_FACTURA over the charges of a client
SumaSaldosFactura(cl) ==
    Suma(df_filtrado, [k \in 1..Len(df_filtrado) |->
        IF df_filtrado[k].NOMBRE_CLIENTE = cl /\ df_filtrado[k].TIPO_IMPTE = "C"
        THEN df_filtrado[k].SALDO_FACTURA ELSE 0])

DeCliente(S, cl) == {i \in S : df[i].NOMBRE_CLIENTE = cl}

\* active charges minus active payments of a client, from the raw table
NetoCliente(cl) ==
    SumaConj(DeCliente(CargosActivos, cl), MontosCrudos)
    - SumaConj(DeCliente(AbonosActivos, cl), MontosCrudos)

\* every active payment of the client settles an active charge of the same
\* client, nobody else pays the client's charges, and amounts are whole cents
Conciliable(cl) ==
    /\ TieneColumna(df, "DOCTO_CC_ACR_ID")
    /\ \A j \in DeCliente(AbonosActivos, cl) :
          Referencia(df[j]) \in DeCliente(CargosActivos, cl)
    /\ \A j \in AbonosActivos :
          Referencia(df[j]) \in DeCliente(CargosActivos, cl)
              => df[j].NOMBRE_CLIENTE = cl
    /\ \A i \in DeCliente(CargosActivos \cup AbonosActivos, cl) :
          MontoCrudo(df[i]) % 10 = 0

\* C2 as stated: for every client, the running balance (SALDO_CLIENTE) on the
\* client's last row equals the sum of the invoice balances (SALDO_FACTURA)
\* of the client's charges.
C2_Original ==
    ReporteHecho =>
        \A cl \in Range(Clientes) :
            FilasCliente(cl) # {} => SaldoFinalCliente(cl) = SumaSaldosFactura(cl)

\* C2 amended: for every client, the running balance on the client's last row
\* (in the order of the running balance) is the client's active charges minus
\* the client's active payments, rounded to two decimals; it equals the sum of
\* the client's invoice balances when every active payment of the client
\* references an active charge of the same client, no other client's payment
\* references those charges, and the amounts are whole cents.
C2_SaldoCliente ==
    ReporteHecho =>
        \A cl \in Range(Clientes) :
            FilasCliente(cl) # {} =>
                /\ SaldoFinalCliente(cl) = Round2(NetoCliente(cl))
                /\ Conciliable(cl) =>
                      SaldoFinalCliente(cl) = SumaSaldosFactura(cl)

\* a client with a charge partly paid by a linked payment: both sums agree
\* and are positive
C2_Witness ==
    /\ ReporteHecho
    /\ \E cl \in Range(Clientes) :
          /\ Conciliable(cl)
          /\ DeCliente(AbonosActivos, cl) # {}
          /\ SaldoFinalCliente(cl) = SumaSaldosFactura(cl)
          /\ SaldoFinalCliente(cl) > 0

AuditoriaHecha == pc \in {"analisis", "kpis", "exportar"}
AnalisisHecho == pc \in {"kpis", "exportar"}

\* FOLIO of the rows of a table
Folios(tabla) == {tabla[k].FOLIO : k \in 1..Len(tabla)}

\* the views of the report, by name
VistasReporte ==
    {"reporte_cxc", "por_acreditar", "movimientos_abiertos_cxc",
     "movimientos_cerrados_cxc", "movimientos_totales_cxc"}

\* the cancelled rows of the raw table, and the raw table without them
Cancelados == {i \in 1..Len(df) : EsCancelado(df[i])}
SinCancelados == Filtrar(df, [i \in 1..Len(df) |-> ~EsCancelado(df[i])])

\* the report without its por acreditar table
SinPorAcreditar(r) == [r EXCEPT !.por_acreditar = <<>>]

\* cancelled rows are absent from the report and its views, and the report,
\* the delta outlier tables, the analysis and the KPIs are those of the raw
\* table without its cancelled rows; every stage is compared when it has
\* just run, its result does not change afterwards
C3_FueraDelAuditor ==
    /\ ReporteHecho =>
          \A v \in VistasReporte : Folios(reporte[v]) \cap Cancelados = {}
    /\ pc = "auditoria" =>
          /\ df_filtrado = DfFiltrado(SinCancelados)
          /\ reporte = GenerarReporteCxc(SinCancelados)
    /\ pc = "analisis" =>
          LET a == RunAudit(SinCancelados,
                            GenerarReporteCxc(SinCancelados).reporte_cxc, anomalias)
          IN  /\ auditoria.recaudos_atipicos = a.recaudos_atipicos
              /\ auditoria.moras_atipicas = a.moras_atipicas
    /\ pc = "kpis" =>
          analisis = RunAnalytics(GenerarReporteCxc(SinCancelados), rangos)
    /\ pc = "exportar" => kpis = GenerarKpis(SinCancelados, DiasPeriodo)

\* C3: a cancelled row contributes to no downstream result other than the
\* cancellation-specific outputs: it is absent from the report and its views,
\* changes no balance, aging bucket or KPI, and is neither in the population
\* nor in the flagged set of any outlier computation, the auditor's
\* charge-amount outlier table included.
C3_Cancelados ==
    /\ C3_FueraDelAuditor
    /\ AuditoriaHecha =>
          /\ Folios(auditoria.importes_atipicos) \cap Cancelados = {}
          /\ auditoria.importes_atipicos
               = RunAudit(SinCancelados, reporte.reporte_cxc,
                          anomalias).importes_atipicos

\* the unapplied advances of the raw table, and the raw table without them
Anticipos == {i \in 1..Len(df) : EsTipo(df[i], "A")}
SinAnticipos == Filtrar(df, [i \in 1..Len(df) |-> ~EsTipo(df[i], "A")])

\* no advance affects a balance, a category, a KPI or an outlier flag: the
\* report's tables other than por_acreditar, the outlier tables, the analysis
\* and the KPIs are those of the raw table without its advances; every stage
\* is compared when it has just run
C4_SinEfecto ==
    /\ pc = "auditoria" =>
          /\ df_filtrado = DfFiltrado(SinAnticipos)
          /\ SinPorAcreditar(reporte)
               = SinPorAcreditar(GenerarReporteCxc(SinAnticipos))
    /\ pc = "analisis" =>
          LET a == RunAudit(SinAnticipos,
                            GenerarReporteCxc(SinAnticipos).reporte_cxc, anomalias)
          IN  /\ auditoria.importes_atipicos = a.importes_atipicos
              /\ auditoria.recaudos_atipicos = a.recaudos_atipicos
              /\ auditoria.moras_atipicas = a.moras_atipicas
    /\ pc = "kpis" =>
          analisis = RunAnalytics(GenerarReporteCxc(SinAnticipos), rangos)
    /\ pc = "exportar" => kpis = GenerarKpis(SinAnticipos, DiasPeriodo)

\* a non-cancelled advance is in both por acreditar outputs and in none of
\* the other filtered views
C4_SoloPorAcreditar ==
    ReporteHecho =>
        \A i \in Anticipos \ Cancelados :
            /\ i \in Folios(reporte.por_acreditar)
            /\ i \in Folios(cxc.registros_por_acreditar_cxc)
            /\ \A v \in VistasReporte \ {"por_acreditar"} : i \notin Folios(reporte[v])
            /\ i \notin Folios(cxc.registros_cancelados_cxc)

EnAbiertos(id) == id \in Folios(reporte.movimientos_abiertos_cxc)
EnCerrados(id) == id \in Folios(reporte.movimientos_cerrados_cxc)

\* C5 as stated: every active charge is Open (balance > 0) or Closed
\* (balance = 0 after rounding): it has a charge row in exactly one of
\* movimientos_abiertos_cxc and movimientos_cerrados_cxc, never in both and
\* never in neither.
C5_Original ==
    ReporteHecho =>
        \A id \in CargosActivos :
            /\ ~(EnAbiertos(id) /\ EnCerrados(id))
            /\ EnAbiertos(id) \/ EnCerrados(id)

\* C5 amended: every active charge whose balance is not negative is Open
\* (balance > 0) or Closed (balance = 0 after rounding) and has one charge row
\* in exactly one of the two views; no charge is in both; a charge whose
\* linked payments exceed it (negative balance) is in neither view.
C5_AbiertaOCerrada ==
    ReporteHecho =>
        \A id \in CargosActivos :
            /\ ~(EnAbiertos(id) /\ EnCerrados(id))
            /\ EnAbiertos(id) <=> SaldoEsperado(id) > 0
            /\ EnCerrados(id) <=> SaldoEsperado(id) = 0
            /\ EnAbiertos(id) =>
                  Cardinality(FilasCon(reporte.movimientos_abiertos_cxc,
                                       "FOLIO", id)) = 1
            /\ EnCerrados(id) =>
                  Cardinality(FilasCon(reporte.movimientos_cerrados_cxc,
                                       "FOLIO", id)) = 1
            /\ cxc.movimientos_abiertos_cxc = reporte.movimientos_abiertos_cxc
            /\ cxc.movimientos_cerrados_cxc = reporte.movimientos_cerrados_cxc

\* an open charge next to a charge closed by a payment 0.004 short of it
C5_Witness ==
    /\ ReporteHecho
    /\ \E a, c \in CargosActivos :
          /\ EnAbiertos(a) /\ ~EnCerrados(a)
          /\ EnCerrados(c) /\ ~EnAbiertos(c)
          /\ MontoCrudo(df[c])
               - SumaConj(AbonosVinculados(c), MontosCrudos) = 4

\* the open charges of the raw table that have a due date, and their days
\* overdue
AbiertosConVencimiento ==
    {id \in CargosActivos :
        SaldoEsperado(id) > 0 /\ df[id].FECHA_VENCIMIENTO # NULL}
DiasVencido(id) == Hoy - df[id].FECHA_VENCIMIENTO

\* the row of a charge in a table, found by its FOLIO
FilaDe(tabla, id) == tabla[CHOOSE k \in FilasCon(tabla, "FOLIO", id) : TRUE]

\* whether d days overdue lie inside a configured range
EnRango(d, rg) == d > 0 /\ d >= rg.min /\ (rg.max = NULL \/ d <= rg.max)

\* the category the claim gives to d days overdue in the report
CategoriaMoraEsperada(d) ==
    IF d <= 0 THEN "Por vencer"
    ELSE IF d <= 30 THEN "Mora temprana (1-30)"
    ELSE IF d <= 60 THEN "Mora media (31-60)"
    ELSE IF d <= 90 THEN "Mora alta (61-90)"
    ELSE "Mora critica (>90)"

\* the bucket Analytics._bucket_mora gives to the row of a charge in the view
\* of open invoices
BucketDe(id) ==
    BucketMora(AnalyticsPreparar(
                   <<FilaDe(reporte.movimientos_abiertos_cxc, id)>>)[1], rangos)

\* the open charges with a due date whose days overdue lie in a range
EnRangoAbiertos(rg) == {id \in AbiertosConVencimiento : EnRango(DiasVencido(id), rg)}

SaldosEsperados == [id \in 1..Len(df) |-> SaldoEsperado(id)]

Cerrados == {id \in CargosActivos : SaldoEsperado(id) = 0}
FechasDeAbono(id) ==
    {df[j].FECHA_EMISION : j \in AbonosVinculados(id)} \ {NULL}
Maximo(S) == CHOOSE m \in S : \A v \in S : v <= m

\* latest payment date minus due date
DiasRecaudoEsperados(id) == Maximo(FechasDeAbono(id)) - df[id].FECHA_VENCIMIENTO

\* the category the claim gives to d days to collect
CategoriaRecaudoEsperada(d) ==
    IF d < 0 THEN "Pago anticipado"
    ELSE IF d = 0 THEN "Pago puntual"
    ELSE IF d <= 15 THEN "Retraso leve (1-15)"
    ELSE IF d <= 30 THEN "Retraso moderado (16-30)"
    ELSE IF d <= 60 THEN "Retraso alto (31-60)"
    ELSE "Retraso critico (>60)"

\* both collection columns of the charge's row agree with the claim
RecaudoSegunReclamo(fila, id) ==
    /\ fila.DELTA_RECAUDO = DiasRecaudoEsperados(id)
    /\ fila.CATEGORIA_RECAUDO = CategoriaRecaudoEsperada(DiasRecaudoEsperados(id))

\* C7 as stated: every closed charge (balance = 0) gets days_to_collect =
\* latest issue date of its linked payments - due date, and exactly one
\* collection category: early (< 0), on time (0), slight (1..15), moderate
\* (16..30), high (31..60) or critical (> 60) delay.
C7_Original ==
    ReporteHecho =>
        \A id \in Cerrados :
            /\ EnCerrados(id)
            /\ FechasDeAbono(id) # {}
            /\ df[id].FECHA_VENCIMIENTO # NULL
            /\ RecaudoSegunReclamo(FilaDe(reporte.movimientos_cerrados_cxc, id), id)

\* C7 amended: every closed charge (balance = 0) that has a due date and at
\* least one linked payment with an issue date gets days_to_collect = latest
\* issue date of its linked payments - due date, and exactly one collection
\* category: early (< 0), on time (0), slight (1..15), moderate (16..30),
\* high (31..60) or critical (> 60) delay; a closed charge without due date
\* or without dated linked payment gets no days_to_collect and the empty
\* category.  A charge of 1000 + 160 tax settled by one payment of 1160 on the
\* due date is closed with days_to_collect = 0 and category on-time payment.
C7_Recaudo ==
    ReporteHecho =>
        \A id \in Cerrados :
            /\ EnCerrados(id)
            /\ \A fila \in {FilaDe(reporte.movimientos_cerrados_cxc, id),
                           FilaDe(reporte.reporte_cxc, id)} :
                  IF FechasDeAbono(id) # {} /\ df[id].FECHA_VENCIMIENTO # NULL
                  THEN RecaudoSegunReclamo(fila, id)
                  ELSE fila.DELTA_RECAUDO = NULL /\ fila.CATEGORIA_RECAUDO = ""

\* the spec's scenario: 1000 + 160 tax, one payment of 1160 on the due date
C7_Witness ==
    /\ ReporteHecho
    /\ \E id \in Cerrados :
          /\ df[id].IMPORTE = 1000000 /\ df[id].IMPUESTO = 160000
          /\ Cardinality(AbonosVinculados(id)) = 1
          /\ \A j \in AbonosVinculados(id) :
                /\ MontoCrudo(df[j]) = 1160000
                /\ df[j].FECHA_EMISION = df[id].FECHA_VENCIMIENTO
          /\ FilaDe(reporte.movimientos_cerrados_cxc, id).SALDO_FACTURA = 0
          /\ FilaDe(reporte.movimientos_cerrados_cxc, id).DELTA_RECAUDO = 0
          /\ FilaDe(reporte.movimientos_cerrados_cxc, id).CATEGORIA_RECAUDO
               = "Pago puntual"

\* the open charges of the raw table that have no due date
AbiertosSinVencimiento ==
    {id \in CargosActivos :
        SaldoEsperado(id) > 0 /\ df[id].FECHA_VENCIMIENTO = NULL}

\* the balance the per-client pivot spreads over its aging columns
EnColumnasDeAntiguedad(fila) ==
    fila.FACTURAS_VIGENTES
    + Suma(fila.FACTURAS_VENCIDAS,
           [k \in 1..Len(fila.FACTURAS_VENCIDAS) |-> fila.FACTURAS_VENCIDAS[k].saldo])

\* an open charge without due date has no aging category and no days overdue
\* in the report, and its balance counts in the raw totals of the per-client
\* pivot and of the KPIs
C8_EnReporteYTotales ==
    /\ ReporteHecho =>
          \A id \in AbiertosSinVencimiento :
             \A fila \in {FilaDe(reporte.reporte_cxc, id),
                          FilaDe(reporte.movimientos_abiertos_cxc, id)} :
                fila.CATEGORIA_MORA = "" /\ fila.DELTA_MORA = NULL
    /\ AnalisisHecho =>
          \A f \in 1..Len(analisis.antiguedad_por_cliente_mxn) :
             LET fila == analisis.antiguedad_por_cliente_mxn[f]
             IN  fila.SALDO_PENDIENTE = Round2(NetoCliente(fila.NOMBRE_CLIENTE))
    /\ KpisHechos => kpis.saldo_total = SumaConj(CargosActivos, SaldosEsperados)

\* C8: an open charge whose due date is missing is excluded from aging
\* classification everywhere: it has no aging category in the report and it
\* is counted in no bucket of the aging distribution (antiguedad_cartera) nor
\* of the per-client aging pivot, while its balance still counts in raw
\* totals.
C8_SinVencimiento ==
    /\ C8_EnReporteYTotales
    /\ AnalisisHecho =>
          /\ Suma(analisis.antiguedad_cartera,
                  [f \in 1..Len(analisis.antiguedad_cartera) |->
                      analisis.antiguedad_cartera[f].IMPORTE_TOTAL])
               = SumaConj(AbiertosConVencimiento, SaldosEsperados)
          /\ \A f \in 1..Len(analisis.antiguedad_por_cliente_mxn) :
                LET fila == analisis.antiguedad_por_cliente_mxn[f]
                IN  EnColumnasDeAntiguedad(fila)
                      = SumaConj(DeCliente(AbiertosConVencimiento,
                                           fila.NOMBRE_CLIENTE), SaldosEsperados)

\* C9: for any configured list of aging ranges, the aging category of each
\* open charge in the report is the label of the configured range that
\* contains its days overdue: the bucket Analytics._bucket_mora assigns to
\* the charge under the same configuration.
C9_RangosConfigurados ==
    ReporteHecho =>
        \A id \in AbiertosConVencimiento :
            FilaDe(reporte.movimientos_abiertos_cxc, id).CATEGORIA_MORA
              = BucketDe(id)

\* the rows of a table that are charges and have a value in a column
ConValor(tabla, c) ==
    {k \in 1..Len(tabla) : NormTipo(tabla[k].TIPO_IMPTE) = "C" /\ tabla[k][c] # NULL}

\* fewer than three values, or all of them equal (standard deviation 0)
SerieDegenerada(tabla, c) ==
    \/ Cardinality(ConValor(tabla, c)) < 3
    \/ \A j, k \in ConValor(tabla, c) : tabla[j][c] = tabla[k][c]

\* the three outlier flags of the report
Banderas ==
    [IMPORTE |-> "ATIPICO_IMPORTE", DELTA_RECAUDO |-> "ATIPICO_DELTA_RECAUDO",
     DELTA_MORA |-> "ATIPICO_DELTA_MORA"]

\* C10: in each of the three outlier computations (charge amounts,
\* DELTA_RECAUDO, DELTA_MORA), of the auditor and of the report, a series with
\* fewer than three non-missing values or with standard deviation 0 flags no
\* row, whatever the threshold.
C10_SinAtipicos ==
    /\ AuditoriaHecha =>
          /\ SerieDegenerada(df, "IMPORTE") => auditoria.importes_atipicos = <<>>
          /\ SerieDegenerada(reporte.reporte_cxc, "DELTA_RECAUDO")
                => auditoria.recaudos_atipicos = <<>>
          /\ SerieDegenerada(reporte.reporte_cxc, "DELTA_MORA")
                => auditoria.moras_atipicas = <<>>
    /\ pc = "auditoria" =>
          \A c \in DOMAIN Banderas :
             SerieDegenerada(df_filtrado, c) =>
                /\ \A k \in 1..Len(reporte.movimientos_totales_cxc) :
                      reporte.movimientos_totales_cxc[k][Banderas[c]] # "True"
                /\ \A u \in Umbrales :
                      \A k \in 1..Len(df_filtrado) :
                         AgregarZscores(df_filtrado, u)[k][Banderas[c]] # "True"

\* three charges of the same amount audited with threshold 0, which every
\* z-score reaches: no charge is flagged
C10_Witness ==
    /\ AuditoriaHecha
    /\ anomalias.importe_zscore_umbral = 0
    /\ Cardinality(ConValor(df, "IMPORTE")) = 3
    /\ SerieDegenerada(df, "IMPORTE")
    /\ auditoria.importes_atipicos = <<>>
    /\ \A k \in 1..Len(reporte.movimientos_totales_cxc) :
          reporte.movimientos_totales_cxc[k].ATIPICO_IMPORTE = "None"

(***************************************************************************)
(* Charge amounts of 100.00 and 100,000.00                                 *)
(***************************************************************************)
\* rows of the raw table that are charges with principal m
CargosCon(m) == {i \in 1..Len(df) : EsTipo(df[i], "C") /\ df[i].IMPORTE = m}

\* the raw table has exactly six charges: five of 100.00, one of 100,000.00
SeisImportes ==
    /\ Cardinality({i \in 1..Len(df) : EsTipo(df[i], "C")}) = 6
    /\ Cardinality(CargosCon(100000)) = 5
    /\ Cardinality(CargosCon(100000000)) = 1

\* ATIPICO_IMPORTE of the charges in the table of all movements
BanderasDeImporte ==
    {reporte.movimientos_totales_cxc[k].ATIPICO_IMPORTE :
        k \in {j \in 1..Len(reporte.movimientos_totales_cxc) :
                  reporte.movimientos_totales_cxc[j].TIPO_IMPTE = "C"}}

\* C11 as stated: with five charges of 100 and one of 100000 and threshold
\* 3.0 the auditor's outlier table holds the 100000 row and only it.
C11_Original ==
    (AuditoriaHecha /\ SeisImportes /\ anomalias.importe_zscore_umbral = 3)
        => Folios(auditoria.importes_atipicos) = CargosCon(100000000)

\* C11: with exactly five charges of 100 and one of 100000 the z-score of
\* the 100000 row lies between 2 and 3 (it is 5 / sqrt(6)): with threshold
\* 3.0 neither the auditor nor the report flags any row, with threshold
\* 2.0 the auditor flags the 100000 row and none of the five 100 rows.
C11_SeisImportes ==
    (AuditoriaHecha /\ SeisImportes) =>
        /\ anomalias.importe_zscore_umbral = 3
              => auditoria.importes_atipicos = <<>>
        /\ anomalias.importe_zscore_umbral = 2
              => Folios(auditoria.importes_atipicos) = CargosCon(100000000)
        /\ BanderasDeImporte = {"False"}

C11_Witness ==
    /\ AuditoriaHecha
    /\ SeisImportes
    /\ anomalias.importe_zscore_umbral = 3
    /\ auditoria.importes_atipicos = <<>>
    /\ \E i \in 1..Len(df) : EsTipo(df[i], "R")


(***************************************************************************)
(* Charge amounts with tax                                                 *)
(***************************************************************************)
\* the raw table with principal + tax written in the principal column
ConMontoEnImporte ==
    [i \in 1..Len(df) |-> Con(df[i], "IMPORTE", df[i].IMPORTE + df[i].IMPUESTO)]

\* no row is cancelled or lacks its principal
SinCanceladosNiFaltantes ==
    \A i \in 1..Len(df) : Activa(df[i]) /\ df[i].IMPORTE # NULL

\* C12: the charge-amount outlier rule of the auditor (mean, standard
\* deviation and z-score per row) is computed over principal + tax of each
\* charge: the flagged rows are the ones the rule gives on principal + tax.
C12_MontoTotal ==
    (AuditoriaHecha /\ SinCanceladosNiFaltantes) =>
        Folios(auditoria.importes_atipicos)
            = Folios(DetectarImportesAtipicos(PrepararDatos(ConMontoEnImporte),
                                              anomalias))

(***************************************************************************)
(* KPI ratios.  VALOR is in tenths; the sums below are in whole currency   *)
(* units (every amount of the family is a whole number of them).           *)
(***************************************************************************)
Unidades(x) == x \div 1000

\* charges and payments issued in the trailing window of DiasPeriodo days
EnVentana(S) ==
    {i \in S : /\ df[i].FECHA_EMISION # NULL
               /\ df[i].FECHA_EMISION >= Hoy - DiasPeriodo
               /\ df[i].FECHA_EMISION <= Hoy}

\* sum of all outstanding invoice balances
SaldoTotalEsperado == Unidades(SumaConj(CargosActivos, SaldosEsperados))
\* principal + tax of the charges issued in the window
VentasEsperadas == Unidades(SumaConj(EnVentana(CargosActivos), MontosCrudos))

\* v (in tenths) is factor * num / den rounded to one decimal
EsRedondeoDe(v, num, den, factor) ==
    LET e == v * den - num * factor * 10
    IN  2 * Abs(e) <= Abs(den)

\* C13: DSO is the sum of all outstanding invoice balances divided by the
\* sum of principal + tax of the charges issued in the trailing N-day
\* window, times N (reported to one decimal), and 0 when that denominator
\* is zero; with N = 90, balance 90000 and 90000 billed, DSO is 90.0.
C13_Dso ==
    KpisHechos =>
        /\ VentasEsperadas = 0 => kpis.dso = 0
        /\ VentasEsperadas > 0 =>
              EsRedondeoDe(kpis.dso, SaldoTotalEsperado, VentasEsperadas,
                           DiasPeriodo)
        /\ (SaldoTotalEsperado = 90000 /\ VentasEsperadas = 90000)
              => kpis.dso = 900

C13_Witness ==
    /\ KpisHechos
    /\ SaldoTotalEsperado = 90000
    /\ VentasEsperadas = 90000
    /\ kpis.dso = 900

\* payments received in the window, charges issued in the window, and the
\* current balance: all charges minus all payments
CobrosEsperados == Unidades(SumaConj(EnVentana(AbonosActivos), MontosCrudos))
SaldoActualEsperado ==
    Unidades(SumaConj(CargosActivos, MontosCrudos))
    - Unidades(SumaConj(AbonosActivos, MontosCrudos))
SaldoInicioEsperado == SaldoActualEsperado - VentasEsperadas + CobrosEsperados
CobrableEsperado == SaldoInicioEsperado + VentasEsperadas

\* C14: CEI is the payments received in the trailing window divided by the
\* collectible amount, times 100 (reported to one decimal), where collectible
\* is the opening balance plus the charges issued in the window and the
\* opening balance is current balance - window charges + window payments;
\* whenever collectible <= 0 the CEI is exactly 100.
C14_Cei ==
    KpisHechos =>
        /\ CobrableEsperado <= 0 => kpis.cei = 1000
        /\ CobrableEsperado > 0 =>
              EsRedondeoDe(kpis.cei, CobrosEsperados, CobrableEsperado, 100)

C14_Witness ==
    /\ KpisHechos
    /\ CobrableEsperado > 0
    /\ CobrosEsperados > 0
    /\ VentasEsperadas > 0
    /\ SaldoInicioEsperado > 0
    /\ kpis.cei \notin {0, 1000}

\* the empty and negative cases of the collectible amount are reached
C14_WitnessSinCobrable ==
    KpisHechos /\ CobrableEsperado < 0 /\ kpis.cei = 1000

\* balances of the charges whose due date is before today
VencidoEsperado ==
    Unidades(SumaConj({i \in CargosActivos : /\ df[i].FECHA_VENCIMIENTO # NULL
                                             /\ df[i].FECHA_VENCIMIENTO < Hoy},
                      SaldosEsperados))

ClientesConCargo == {df[i].NOMBRE_CLIENTE : i \in CargosActivos}

\* C15 as stated: the delinquency ratio is past-due balances / all balances
\* x 100 whenever the total is not zero, and 0 when it is zero.
C15_Original ==
    KpisHechos =>
        /\ SaldoTotalEsperado = 0 => kpis.morosidad = 0
        /\ SaldoTotalEsperado # 0 =>
              EsRedondeoDe(kpis.morosidad, VencidoEsperado,
                           SaldoTotalEsperado, 100)

\* C15: the delinquency ratio is the sum of the balances of the charges
\* whose due date is before today divided by the sum of all balances, times
\* 100 (reported to one decimal), and 0 when the total is zero or negative;
\* a single client with total balance 10000 of which 3000 is past due gives
\* 30.0.
C15_Morosidad ==
    KpisHechos =>
        /\ SaldoTotalEsperado <= 0 => kpis.morosidad = 0
        /\ SaldoTotalEsperado > 0 =>
              EsRedondeoDe(kpis.morosidad, VencidoEsperado,
                           SaldoTotalEsperado, 100)
        /\ (/\ Cardinality(ClientesConCargo) = 1
            /\ SaldoTotalEsperado = 10000
            /\ VencidoEsperado = 3000) => kpis.morosidad = 300

C15_Witness ==
    /\ KpisHechos
    /\ Cardinality(ClientesConCargo) = 1
    /\ SaldoTotalEsperado = 10000
    /\ VencidoEsperado = 3000
    /\ kpis.morosidad = 300

(***************************************************************************)
(* Concentration and credit-limit tables                                   *)
(***************************************************************************)
\* C16: in every non-empty concentration table the rows are sorted by
\* client balance descending and PCT_ACUMULADO is non-decreasing from each
\* row to the next.
C16_Acumulado ==
    KpisHechos =>
        \A k \in 1..(Len(kpis.kpis_concentracion) - 1) :
            /\ kpis.kpis_concentracion[k].SALDO
                  >= kpis.kpis_concentracion[k + 1].SALDO
            /\ kpis.kpis_concentracion[k].PCT_ACUMULADO
                  <= kpis.kpis_concentracion[k + 1].PCT_ACUMULADO

\* the sorted half of C16 on its own
C16_Ordenada ==
    KpisHechos =>
        \A k \in 1..(Len(kpis.kpis_concentracion) - 1) :
            kpis.kpis_concentracion[k].SALDO
                >= kpis.kpis_concentracion[k + 1].SALDO

\* C17: in every non-empty concentration table the last row's PCT_ACUMULADO
\* is within 0.1 of 100.0 and no row's PCT_ACUMULADO exceeds 100.1.
C17_CienPorCiento ==
    (KpisHechos /\ kpis.kpis_concentracion # <<>>) =>
        /\ Abs(kpis.kpis_concentracion[Len(kpis.kpis_concentracion)]
                   .PCT_ACUMULADO - 10000) <= 10
        /\ \A k \in 1..Len(kpis.kpis_concentracion) :
              kpis.kpis_concentracion[k].PCT_ACUMULADO <= 10010

\* the last row's half of C17 on its own
C17_UltimaFila ==
    (KpisHechos /\ kpis.kpis_concentracion # <<>>) =>
        Abs(kpis.kpis_concentracion[Len(kpis.kpis_concentracion)]
                .PCT_ACUMULADO - 10000) <= 10

\* credit limit of a client in the raw table: the largest on its active
\* rows, 0 when it is absent
LimiteEsperado(cl) ==
    LET S == {Valor(df[i].LIMITE_CREDITO) :
                 i \in {j \in 1..Len(df) : /\ df[j].NOMBRE_CLIENTE = cl
                                           /\ Activa(df[j])
                                           /\ ~EsTipo(df[j], "A")}}
    IN  CHOOSE m \in S : \A v \in S : v <= m

\* balance of a client: the sum of the balances of its active charges
SaldoClienteEsperado(cl) ==
    SumaConj({i \in CargosActivos : df[i].NOMBRE_CLIENTE = cl}, SaldosEsperados)

\* the alert level that utilization = balance / limit x 100 gives
AlertaEsperada(saldo, limite) ==
    IF limite = 0 THEN "SIN_LIMITE"
    ELSE IF saldo > limite THEN "SOBRE_LIMITE"
    ELSE IF 10 * saldo >= 9 * limite THEN "CRITICO"
    ELSE IF 10 * saldo >= 7 * limite THEN "ALTO"
    ELSE "NORMAL"

ConLimiteDeCredito == df # <<>> /\ TieneColumna(df, "LIMITE_CREDITO")

\* C18: each client of the credit-utilisation table has exactly one alert
\* level, given by utilization = balance / credit limit x 100: SIN_LIMITE
\* when the limit is zero or absent, otherwise SOBRE_LIMITE when the balance
\* exceeds the limit, CRITICO from 90 to 100, ALTO from 70 to 90, NORMAL
\* below 70.
C18_Alerta ==
    (KpisHechos /\ ConLimiteDeCredito) =>
        \A cl \in ClientesConCargo :
            /\ Cardinality(FilasCon(kpis.kpis_limite_credito,
                                    "NOMBRE_CLIENTE", cl)) = 1
            /\ ValorDe(kpis.kpis_limite_credito, "NOMBRE_CLIENTE", cl, "ALERTA")
                  = AlertaEsperada(SaldoClienteEsperado(cl), LimiteEsperado(cl))

\* the part of C18 that does not depend on the percentage: one row per
\* client with a charge, and SIN_LIMITE exactly when the limit is zero or
\* absent
C18_UnaPorCliente ==
    (KpisHechos /\ ConLimiteDeCredito) =>
        /\ Len(kpis.kpis_limite_credito) = Cardinality(ClientesConCargo)
        /\ \A cl \in ClientesConCargo :
              /\ Cardinality(FilasCon(kpis.kpis_limite_credito,
                                      "NOMBRE_CLIENTE", cl)) = 1
              /\ (ValorDe(kpis.kpis_limite_credito, "NOMBRE_CLIENTE", cl,
                          "ALERTA") = "SIN_LIMITE")
                    <=> (LimiteEsperado(cl) = 0)

(***************************************************************************)
(* Running balance in the order of the report                              *)
(***************************************************************************)
\* + amount of a charge, - amount of a payment, 0 otherwise, read on a row
\* of the report
ImporteConSigno(r) ==
    CASE r.TIPO_IMPTE = "C" -> r.IMPORTE + r.IMPUESTO
      [] r.TIPO_IMPTE = "R" -> -(r.IMPORTE + r.IMPUESTO)
      [] OTHER -> 0

\* sum of the signed amounts of the client of row k over the rows 1..k
AcumuladoHasta(tabla, k) ==
    SumaConj({j \in 1..k : tabla[j].NOMBRE_CLIENTE = tabla[k].NOMBRE_CLIENTE},
             [j \in 1..Len(tabla) |-> ImporteConSigno(tabla[j])])

\* C19: in the rows of the operative report as returned, SALDO_CLIENTE of
\* each row is the sum of the signed amounts (+ charge, - payment) of that
\* client's rows from the client's first row down to that row.
C19_SaldoAcumulado ==
    ReporteHecho =>
        \A k \in 1..Len(reporte.reporte_cxc) :
            reporte.reporte_cxc[k].SALDO_CLIENTE
                = Round2(AcumuladoHasta(reporte.reporte_cxc, k))

\* the same sum in the order in which _calcular_saldo_cliente leaves the rows
C19_EnOrdenDeCalculo ==
    ReporteHecho =>
        \A k \in 1..Len(df_filtrado) :
            df_filtrado[k].SALDO_CLIENTE = Round2(AcumuladoHasta(df_filtrado, k))

(***************************************************************************)
(* Output files of a run                                                   *)
(***************************************************************************)
\* run_pipeline has returned or an exception has left it
Terminado == pc \in {"fin", "abortado"}

\* C20: a run either completes and writes the complete set of output files
\* or aborts before writing any: when the run has ended, the files written
\* are all of them or none, also when a stage raises on an absent column or
\* a later export fails.
C20_TodoONada ==
    Terminado => archivos \in {{}, ArchivosDeSalida}

\* the same for the four workbooks alone, leaving the PDF aside
C20_LibrosTodoONada ==
    Terminado =>
        archivos \cap Range(ArchivosExcel) \in {{}, Range(ArchivosExcel)}

\* the same when no write fails: a stage that raises on an absent column
\* is the only way to abort
C20_SinFalloDeEscritura ==
    (Terminado /\ (pc = "abortado" => ~TieneColumna(df, "FECHA_EMISION")))
        => archivos \in {{}, ArchivosDeSalida}

\* what does hold: a run that returns 0 has written the four workbooks, and
\* a run that ends in step 2 on an absent column has written nothing
C20_FinOAntesDeEscribir ==
    /\ pc = "fin" => Range(ArchivosExcel) \subseteq archivos
    /\ (pc = "abortado" /\ ~ColumnasDelReporte(df)) => archivos = {}

(***************************************************************************)
(* The fallback balance without the reference column, and the audit output *)
(***************************************************************************)
\* the raw table has rows and no DOCTO_CC_ACR_ID column
SinReferencia == df # <<>> /\ ~TieneColumna(df, "DOCTO_CC_ACR_ID")

\* the warning _calcular_saldo_factura writes to the log on the fallback
AvisoSinReferencia ==
    "Sin DOCTO_CC_ACR_ID - saldo = monto total sin restar abonos."

\* every text of the audit output that could carry a note: the reasons of
\* the flagged rows, the column names of the finding tables and of the
\* quality table, and the keys of the summary
MotivosDe(tabla) ==
    {tabla[k].MOTIVO : k \in {j \in 1..Len(tabla) : "MOTIVO" \in DOMAIN tabla[j]}}
NotasDeAuditoria(a) ==
    MotivosDe(a.sin_tipo_cliente) \cup MotivosDe(a.sin_vendedor)
    \cup MotivosDe(a.documentos_cancelados)
    \cup UNION {Columnas(a[t]) : t \in {"importes_atipicos", "sin_tipo_cliente",
                    "sin_vendedor", "documentos_cancelados",
                    "recaudos_atipicos", "moras_atipicas"}}
    \cup DOMAIN a.calidad_datos \cup DOMAIN a.resumen

\* C21: whenever the reference column is absent from the source table, so
\* that every charge's balance falls back to its full amount, the audit
\* output of the same run records that the fallback was used.
C21_FallbackAnotado ==
    (AuditoriaHecha /\ SinReferencia)
        => \E n \in NotasDeAuditoria(auditoria) :
              n \in {AvisoSinReferencia, "DOCTO_CC_ACR_ID"}

\* the fallback is what the claim says: without the column every charge of
\* the report has its full amount as balance
C21_SaldoCompleto ==
    (ReporteHecho /\ SinReferencia) =>
        \A k \in 1..Len(reporte.reporte_cxc) :
            LET r == reporte.reporte_cxc[k]
            IN  r.TIPO_IMPTE = "C" => r.SALDO_FACTURA = Round2(r.IMPORTE + r.IMPUESTO)

(***************************************************************************)
(* Rows without salesperson                                                *)
(***************************************************************************)
\* the raw table as the stages read it, and its rows without salesperson
Crudo == ColumnasEnMayusculas(df)
SinVendedor(tipos) ==
    {Crudo[i].FOLIO : i \in {j \in 1..Len(Crudo) :
        /\ Crudo[j].VENDEDOR = NA
        /\ NormTipo(Crudo[j].TIPO_IMPTE) \in tipos}}

\* C23: the missing-salesperson audit table contains exactly the charge rows
\* (kind C) whose salesperson is missing; a payment or advance row with no
\* salesperson is not flagged and not counted in the sin_vendedor total.
C23_SoloCargos ==
    (AuditoriaHecha /\ TieneColumna(Crudo, "VENDEDOR")) =>
        /\ Folios(auditoria.sin_vendedor) = SinVendedor({"C"})
        /\ auditoria.resumen.sin_vendedor = Cardinality(SinVendedor({"C"}))

\* what the table holds: every row without salesperson, of any kind and
\* cancelled or not, each once, with the reason, and the total counts them
C23_TodasLasFilas ==
    (AuditoriaHecha /\ TieneColumna(Crudo, "VENDEDOR")) =>
        /\ Folios(auditoria.sin_vendedor) = SinVendedor({"C", "R", "A"})
        /\ Len(auditoria.sin_vendedor) = Cardinality(SinVendedor({"C", "R", "A"}))
        /\ auditoria.resumen.sin_vendedor = Len(auditoria.sin_vendedor)
        /\ \A k \in 1..Len(auditoria.sin_vendedor) :
              auditoria.sin_vendedor[k].MOTIVO = "Venta sin vendedor asignado"

(***************************************************************************)
(* Letter case of the column names                                         *)
(***************************************************************************)
\* the views of the run whose raw table has the same cells under upper-case
\* column names
VistasDelGemelo ==
    CHOOSE gemelo \in {VistasCxc(crudo, GenerarReporteCxc(crudo)) :
                          crudo \in {Crudo}} : TRUE

\* C22: column names are case-insensitive: two source tables that differ
\* only in the letter case of their column names yield the same outputs,
\* the cancelled, pending-application and all-records views built in main
\* included (compared up to the letter case of the output's column names).
C22_SinDistincion ==
    pc = "auditoria" =>
        \A gemelo \in {VistasDelGemelo} :
            \A v \in DOMAIN cxc : ColumnasEnMayusculas(cxc[v]) = gemelo[v]

\* the three views that come from the report do not depend on the case
C22_VistasDelReporte ==
    pc = "auditoria" =>
        \A gemelo \in {VistasDelGemelo} :
            \A v \in {"movimientos_abiertos_cxc", "movimientos_cerrados_cxc",
                      "movimientos_totales_cxc"} : cxc[v] = gemelo[v]

(***************************************************************************)
(* Percentages of the aging distribution                                   *)
(***************************************************************************)
\* sum of PCT_DEL_TOTAL, in hundredths of a percent, over the rows of the
\* aging distribution in the currencies of `monedas`
SumaPct(monedas) ==
    Suma(analisis.antiguedad_cartera,
         [f \in 1..Len(analisis.antiguedad_cartera) |->
             IF analisis.antiguedad_cartera[f].MONEDA \in monedas
             THEN analisis.antiguedad_cartera[f].PCT_DEL_TOTAL ELSE 0])

\* the currencies that have a row in the aging distribution
MonedasConFilas ==
    {analisis.antiguedad_cartera[f].MONEDA :
        f \in 1..Len(analisis.antiguedad_cartera)}

\* total of IMPORTE_TOTAL over the rows of one currency
ImporteDeMoneda(m) ==
    Suma(analisis.antiguedad_cartera,
         [f \in 1..Len(analisis.antiguedad_cartera) |->
             IF analisis.antiguedad_cartera[f].MONEDA = m
             THEN analisis.antiguedad_cartera[f].IMPORTE_TOTAL ELSE 0])

AbiertosDe(cl, moneda) ==
    {id \in DeCliente(CargosActivos, cl) :
        df[id].MONEDA = moneda /\ SaldoEsperado(id) > 0}

\* every row of one pivot has its client's open balance in its aging columns
PivotCompleto(tabla, moneda) ==
    \A f \in 1..Len(tabla) :
        EnColumnasDeAntiguedad(tabla[f])
          = SumaConj(AbiertosDe(tabla[f].NOMBRE_CLIENTE, moneda), SaldosEsperados)

\* C29: for any configured list of aging ranges and for every client row of
\* the per-client aging pivot, each open charge's balance is counted in
\* exactly one of the columns FACTURAS_VIGENTES and FACTURAS_VENCIDAS(range),
\* so FACTURAS_VIGENTES plus the sum of all FACTURAS_VENCIDAS columns equals
\* the sum of that client's open-charge balances in that currency.
C29_PivotPorCliente ==
    AnalisisHecho =>
        /\ PivotCompleto(analisis.antiguedad_por_cliente_mxn, "MXN")
        /\ PivotCompleto(analisis.antiguedad_por_cliente_usd, "USD")

\* the same under the shipped list, whose last range is open-ended
C29_ConRangoAbierto ==
    (AnalisisHecho /\ rangos = RANGOS_ANTIGUEDAD) =>
        /\ PivotCompleto(analisis.antiguedad_por_cliente_mxn, "MXN")
        /\ PivotCompleto(analisis.antiguedad_por_cliente_usd, "USD")

(***************************************************************************)
(* Ranges of the CEI and of the delinquency index                          *)
(***************************************************************************)
\* C24: for every ledger, the CEI value reported in kpis_resumen lies
\* between 0 and 100 inclusive (VALOR is in tenths of a percent).
C24_CeiAcotado == KpisHechos => (kpis.cei >= 0 /\ kpis.cei <= 1000)

\* when the payments of the ledger do not exceed its charges the CEI is
\* within the range
C24_SinSobrepago ==
    (KpisHechos /\ kpis.saldo_actual >= 0) => (kpis.cei >= 0 /\ kpis.cei <= 1000)

\* C25: for every ledger, the delinquency index (Indice de Morosidad)
\* reported in kpis_resumen lies between 0 and 100 inclusive.
C25_MorosidadAcotada ==
    KpisHechos => (kpis.morosidad >= 0 /\ kpis.morosidad <= 1000)

\* when no invoice balance is negative the index is within the range
C25_SinSaldoNegativo ==
    (KpisHechos /\ \A k \in 1..Len(kpis.saldos) : kpis.saldos[k].SALDO >= 0)
        => (kpis.morosidad >= 0 /\ kpis.morosidad <= 1000)

AbonosSinFactura ==
    {j \in AbonosActivos : \A c \in CargosActivos : Referencia(df[j]) # c}

VecesEn(vista, folio) ==
    Cardinality({k \in 1..Len(cxc[vista]) :
                    ColumnasEnMayusculas(cxc[vista])[k].FOLIO = folio})

\* the view a raw row belongs to by its cancellation flag and its kind
VistaDe(fila) ==
    IF EsCancelado(fila) THEN "registros_cancelados_cxc"
    ELSE IF NormTipo(fila.TIPO_IMPTE) = "A" THEN "registros_por_acreditar_cxc"
    ELSE "movimientos_totales_cxc"

TresVistas ==
    {"registros_cancelados_cxc", "registros_por_acreditar_cxc",
     "movimientos_totales_cxc"}

EnSuVista(fila) ==
    \A v \in TresVistas :
        VecesEn(v, fila.FOLIO) = IF v = VistaDe(fila) THEN 1 ELSE 0

\* C28: every row of the raw table lands in exactly one of three views: a
\* cancelled row, whatever its kind, in registros_cancelados_cxc only; a
\* non-cancelled kind-A row in registros_por_acreditar_cxc only; any other
\* non-cancelled row in movimientos_totales_cxc only.
C28_UnaSolaVista ==
    pc = "auditoria" => \A i \in 1..Len(Crudo) : EnSuVista(Crudo[i])

\* the same for the tables whose column names arrive in upper case
C28_EnMayusculas ==
    (pc = "auditoria" /\ df = Crudo) =>
        \A i \in 1..Len(Crudo) : EnSuVista(Crudo[i])

(***************************************************************************)
(* Exit code of run_pipeline                                               *)
(***************************************************************************)
\* C27: for every combination of the skip flags, run_pipeline returns 0
\* exactly when all its steps finished and returns 1 when a fatal error
\* occurred in any step: a fatal error never escapes as an exception that
\* nothing catches.
C27_CodigoDeSalida ==
    /\ codigo_salida = 0 <=> pc = "fin"
    /\ pc = "abortado" => codigo_salida = 1

\* 0 is returned exactly when all steps finished, and 1 only for an error of
\* the extraction, before anything is computed or written
C27_SoloLaExtraccion ==
    /\ codigo_salida = 0 <=> pc = "fin"
    /\ codigo_salida = 1 =>
          pc = "abortado" /\ df = <<>> /\ archivos = {} /\ cxc = VistasCxc(<<>>, ReporteVacio)

\* a failure after the extraction leaves run_pipeline without a return value
C27_ErrorPosteriorSinCodigo ==
    (pc = "abortado" /\ df # <<>>) => codigo_salida = NULL

====
